---- MODULE Spec2Model ----
(***************************************************************************)
(* Model of the search layer of synapse: the lexical and semantic          *)
(* retrievers, reciprocal rank fusion (search_items) and the two-attempt   *)
(* smart search (iterative_smart_search) of backend/app/main.py, with the  *)
(* oracle adapters of backend/app/utils/gemini_service.py.                 *)
(*                                                                         *)
(* Python strings are sequences of one-character strings, so that          *)
(* iteration over a string, ' '.join and ILIKE containment are computed.   *)
(* Scores are exact fractions [n, d]; within the bounds of the model the   *)
(* distinct values differ by far more than a double's rounding error, so   *)
(* the float order of the code and the exact order agree.                  *)
(***************************************************************************)
EXTENDS Integers, Sequences, FiniteSets, TLC

\* ---------------------------------------------------------------- bounds
FuseItems == 4      \* item ids available to the fusion specification
FuseMaxLen == 3     \* longest ranked list handed to fusion

\* ------------------------------------------------------------- constants
RRF_k == 60

\* ------------------------------------------------------ sequence helpers
Range(s) == {s[i] : i \in DOMAIN s}

IndexOf(s, x) == CHOOSE i \in DOMAIN s : s[i] = x

\* Python slice s[start:end], start and end possibly negative or too large
PyIndex(n, i) == IF i < 0 THEN (IF n + i < 0 THEN 0 ELSE n + i)
                 ELSE (IF i > n THEN n ELSE i)

PySlice(s, start, end) ==
    LET lo == PyIndex(Len(s), start)
        hi == PyIndex(Len(s), end)
    IN  IF hi <= lo THEN << >> ELSE SubSeq(s, lo + 1, hi)

\* duplicate-free sequences over S of length at most n
DistinctSeqs(S, n) ==
    UNION {{s \in [1..m -> S] : \A i, j \in 1..m : i # j => s[i] # s[j]} : m \in 0..n}

\* ---------------------------------------------------- exact score values
Frac(n, d) == [n |-> n, d |-> d]

FracAdd(a, b) == Frac(a.n * b.d + b.n * a.d, a.d * b.d)

FracEq(a, b) == a.n * b.d = b.n * a.d

FracLess(a, b) == a.n * b.d < b.n * a.d

\* ------------------------------------------------- reciprocal rank fusion
\* variant: the position counted from 1 twice over is dropped, 1 / (k + rank)
RRFTerm_rank0(rank) == Frac(1, RRF_k + rank)

\* contribution of 0-based position rank: 1 / (k + rank + 1)
RRFTerm(rank) == Frac(1, RRF_k + rank + 1)

\* a dict: keys in insertion order and their values
EmptyDict == [keys |-> << >>, val |-> << >>]

RECURSIVE AddRanks_assign(_, _, _)
\* variant: "=" in place of "+=", the last list's contribution wins
AddRanks_assign(dict, results, i) ==
    IF i > Len(results) THEN dict
    ELSE LET item == results[i]
             seen == IF item \in Range(dict.keys) THEN dict
                     ELSE [keys |-> Append(dict.keys, item),
                           val |-> (item :> Frac(0, 1)) @@ dict.val]
         IN  AddRanks_assign([seen EXCEPT !.val[item] = RRFTerm(i - 1)],
                             results, i + 1)

RECURSIVE AddRanks(_, _, _)
\* for rank, item in enumerate(results): scores[item] += 1 / (k + rank + 1),
\* from the i-th element on (an unseen item first gets the score 0)
AddRanks(dict, results, i) ==
    IF i > Len(results) THEN dict
    ELSE LET item == results[i]
             seen == IF item \in Range(dict.keys) THEN dict
                     ELSE [keys |-> Append(dict.keys, item),
                           val |-> (item :> Frac(0, 1)) @@ dict.val]
         IN  AddRanks([seen EXCEPT !.val[item] = FracAdd(@, RRFTerm(i - 1))],
                      results, i + 1)

\* scores after the text loop and then the semantic loop
RRFScores(text, sem) == AddRanks(AddRanks(EmptyDict, text, 1), sem, 1)

\* variant: an unstable sort that leaves tied keys in reverse insertion order
SortedByScore_unstable(keys, sc) ==
    LET Before(i, j) == \/ FracLess(sc[keys[j]], sc[keys[i]])
                        \/ FracEq(sc[keys[i]], sc[keys[j]]) /\ i > j
        Pos(i) == Cardinality({j \in DOMAIN keys : Before(j, i)}) + 1
    IN  [p \in DOMAIN keys |-> keys[CHOOSE i \in DOMAIN keys : Pos(i) = p]]

\* sorted(keys, key=score, reverse=True): stable, descending
SortedByScore(keys, sc) ==
    LET Before(i, j) == \/ FracLess(sc[keys[j]], sc[keys[i]])
                        \/ FracEq(sc[keys[i]], sc[keys[j]]) /\ i < j
        Pos(i) == Cardinality({j \in DOMAIN keys : Before(j, i)}) + 1
    IN  [p \in DOMAIN keys |-> keys[CHOOSE i \in DOMAIN keys : Pos(i) = p]]

FusedOrder(text, sem) ==
    LET dict == RRFScores(text, sem) IN SortedByScore(dict.keys, dict.val)

\* variant: the page is not cut out of the fused order
FusedPage_unsliced(text, sem, skip, limit) == FusedOrder(text, sem)

\* page_ids = sorted_ids[skip : skip + limit]
FusedPage(text, sem, skip, limit) == PySlice(FusedOrder(text, sem), skip, skip + limit)

\* ------------------------------------------------------- Python strings
UpperChars == <<"A","B","C","D","E","F","G","H","I","J","K","L","M",
                "N","O","P","Q","R","S","T","U","V","W","X","Y","Z">>

LowerChars == <<"a","b","c","d","e","f","g","h","i","j","k","l","m",
                "n","o","p","q","r","s","t","u","v","w","x","y","z">>

LowerChar(c) == IF \E i \in DOMAIN UpperChars : UpperChars[i] = c
                THEN LowerChars[CHOOSE i \in DOMAIN UpperChars : UpperChars[i] = c]
                ELSE c

Lower(s) == [i \in DOMAIN s |-> LowerChar(s[i])]

\* SQL NULL in a text column
NullStr == <<"NULL">>

RECURSIVE LikeMatch(_, _)
\* text LIKE pattern: '%' stands for any run of characters, '_' for any
\* one character, every other character for itself (queries hold no
\* backslash)
LikeMatch(text, pattern) ==
    IF pattern = << >> THEN text = << >>
    ELSE IF Head(pattern) = "%"
         THEN \/ LikeMatch(text, Tail(pattern))
              \/ text # << >> /\ LikeMatch(Tail(text), pattern)
    ELSE /\ text # << >>
         /\ Head(pattern) \in {"_", Head(text)}
         /\ LikeMatch(Tail(text), Tail(pattern))

\* variant: the text matches when it holds one of the query's words
ILike_anyword(text, q) ==
    /\ text # NullStr
    /\ \E i, j \in DOMAIN q :
          /\ i <= j
          /\ \A n \in i..j : q[n] # " "
          /\ i = 1 \/ q[i - 1] = " "
          /\ j = Len(q) \/ q[j + 1] = " "
          /\ LikeMatch(Lower(text), <<"%">> \o Lower(SubSeq(q, i, j)) \o <<"%">>)

\* text ILIKE f"%{q}%": the query is pasted between two '%' and the match
\* ignores case; NULL never matches
ILike(text, q) ==
    /\ text # NullStr
    /\ LikeMatch(Lower(text), <<"%">> \o Lower(q) \o <<"%">>)

RECURSIVE JoinWith(_, _)
\* sep.join(parts) for a list of strings
JoinWith(sep, parts) ==
    IF parts = << >> THEN << >>
    ELSE IF Len(parts) = 1 THEN parts[1]
    ELSE parts[1] \o sep \o JoinWith(sep, Tail(parts))

\* -------------------------------------------------------- Python values
\* k: none | bool | num | str | list | missing (key absent from a dict);
\* n holds a bool as 0/1 and a number in tenths; l is a list of strings
PyNone == [k |-> "none", n |-> 0, s |-> << >>, l |-> << >>]

PyMissing == [k |-> "missing", n |-> 0, s |-> << >>, l |-> << >>]

PyBool(b) == [k |-> "bool", n |-> IF b THEN 1 ELSE 0, s |-> << >>, l |-> << >>]

PyNum(n) == [k |-> "num", n |-> n, s |-> << >>, l |-> << >>]

PyStr(s) == [k |-> "str", n |-> 0, s |-> s, l |-> << >>]

PyList(l) == [k |-> "list", n |-> 0, s |-> << >>, l |-> l]

\* bool(v)
Truthy(v) == CASE v.k = "none" -> FALSE
               [] v.k = "bool" -> v.n = 1
               [] v.k = "num"  -> v.n # 0
               [] v.k = "str"  -> v.s # << >>
               [] v.k = "list" -> v.l # << >>
               [] OTHER        -> FALSE

\* len(v) is defined
HasLen(v) == v.k \in {"str", "list"}

\* the elements "for x in v" yields: a string yields its characters
Elements(v) == IF v.k = "str" THEN [i \in DOMAIN v.s |-> <<v.s[i]>>] ELSE v.l

\* d.get(key, default) on a dict built by json.loads
Get(v, default) == IF v.k = "missing" THEN default ELSE v

\* -------------------------------------------------------------- the store
NumItems == 2       \* items in the store

\* query vectors are abstract: the embedding collaborator maps the main
\* query to one vector and every other text to another
Q_MAIN == <<"f","o","x">>

generate_text_embedding(text) == IF text = Q_MAIN THEN "vq" ELSE "vo"

\* cosine distance in tenths between a query vector and a stored vector
CosDist(qv, vec) ==
    CASE vec = "near" -> IF qv = "vq" THEN 2 ELSE 6
      [] vec = "mid"  -> IF qv = "vq" THEN 4 ELSE 7
      [] vec = "far"  -> IF qv = "vq" THEN 8 ELSE 9

\* outcome of a retrieval: ok with the ids in order, or an exception whose
\* cause is the store, the embedding collaborator, a Python TypeError
\* ("type") or a statement the database rejects ("sql"); an ok result of
\* search_items that comes from its except clause carries a cause too
Ok(items) == [ok |-> TRUE, items |-> items, cause |-> "none"]

Err(cause) == [ok |-> FALSE, items |-> << >>, cause |-> cause]

\* every ascending order of the set S under the sort key (a function on
\* S): ORDER BY leaves rows of equal key in any order
OrdersBy(S, key) ==
    {s \in [1..Cardinality(S) -> S] :
        /\ \A i, j \in DOMAIN s : i # j => s[i] # s[j]
        /\ \A i, j \in DOMAIN s : i < j => key[s[i]] <= key[s[j]]}

\* LIMIT limit OFFSET skip on an ordered row list (both non-negative)
LimitOffset(rows, limit, skip) == PySlice(rows, skip, skip + limit)

VARIABLES
    store,              \* item id -> row of items joined with embeddings
    endpoint,           \* which handler serves the request
    q, skip, limit,     \* the request
    user_content_type, semantic, content_types, threshold,
    pc,                 \* position of iterative_smart_search
    initial_analysis, first_results, first_evaluation,
    refinement, second_results, second_evaluation,
    response,           \* what the request returned
    calls,              \* collaborator calls made by the request
    text_results, semantic_results, scores, sorted_ids  \* locals of search_items

vars == <<store, endpoint, q, skip, limit, user_content_type,
          semantic, content_types, threshold, pc,
          initial_analysis, first_results, first_evaluation,
          refinement, second_results, second_evaluation,
          response, calls, text_results, semantic_results, scores, sorted_ids>>

\* ------------------------------------------------------------ retrievers
ItemIds == DOMAIN store

\* title ILIKE q OR raw_content ILIKE q OR EXISTS tag ILIKE q
LexicalMatch(id, query) ==
    \/ ILike(store[id].title, query)
    \/ ILike(store[id].raw_content, query)
    \/ \E t \in DOMAIN store[id].tags : ILike(store[id].tags[t], query)

\* type = ANY(ARRAY[one placeholder per element of content_types])
TypeMatch(id, types) ==
    Truthy(types) => store[id].type \in Range(Elements(types))

\* the sort key of ORDER BY created_at DESC
NewerFirst(id) == 0 - store[id].created_at

text_search_only(query, sk, lim, types) ==
    {Err("store")} \cup
    IF Truthy(types) /\ ~HasLen(types) THEN {Err("type")}
    ELSE IF lim < 0 \/ sk < 0 THEN {Err("sql")}
    ELSE LET hits == {id \in ItemIds : LexicalMatch(id, query) /\ TypeMatch(id, types)}
             key == [id \in hits |-> NewerFirst(id)]
         IN  {Ok(LimitOffset(rows, lim, sk)) : rows \in OrdersBy(hits, key)}

Distance(id, query) == CosDist(generate_text_embedding(query), store[id].vec)

\* variant: an outer join, rows without a vector come first
NearestRows_outer(query, bound, types) ==
    LET hits == {id \in ItemIds : /\ store[id].vec # "none" => Distance(id, query) < bound
                                  /\ TypeMatch(id, types)}
    IN  OrdersBy(hits, [id \in hits |-> IF store[id].vec = "none" THEN 0
                                         ELSE Distance(id, query)])

\* rows of the join whose distance is below bound (tenths), nearest first
NearestRows(query, bound, types) ==
    LET hits == {id \in ItemIds : /\ store[id].vec # "none"
                                  /\ Distance(id, query) < bound
                                  /\ TypeMatch(id, types)}
    IN  OrdersBy(hits, [id \in hits |-> Distance(id, query)])

SEMANTIC_ONLY_BOUND == 5

\* The two statements of semantic_search_only share one text.  A parameter
\* is named by what it is: the query vector, a content type, the limit,
\* the offset.  A statement runs only if each placeholder is given the
\* parameter it stands for: a vector for a type or a type for a vector is
\* an error of the store.
\* the placeholders in the order of the text: the distance test, one per
\* content type, ORDER BY, LIMIT, OFFSET
Placeholders(types) ==
    <<"vector">>
    \o (IF Truthy(types) THEN [i \in DOMAIN Elements(types) |-> "type"] ELSE << >>)
    \o <<"vector", "limit", "offset">>

\* params of the first cur.execute: [embedding, limit, skip], each content
\* type put in with insert(-2, ...), the embedding prepended
FirstExecuteParams(types) ==
    LET insert(l, x) == SubSeq(l, 1, Len(l) - 2) \o <<x>> \o SubSeq(l, Len(l) - 1, Len(l))
        inserted[i \in 0..Len(Elements(types))] ==
            IF i = 0 THEN <<"vector", "limit", "offset">>
            ELSE insert(inserted[i - 1], "type")
        params == IF Truthy(types) THEN inserted[Len(Elements(types))]
                  ELSE inserted[0]
    IN  <<"vector">> \o params

\* execute_params of the second cur.execute
execute_params(types) ==
    <<"vector">>
    \o (IF Truthy(types) THEN [i \in DOMAIN Elements(types) |-> "type"] ELSE << >>)
    \o <<"vector">> \o <<"limit">> \o <<"offset">>

\* the rows of the second statement; the first statement runs before it
\* and its rows are never fetched
semantic_search_only(query, sk, lim, types) ==
    {Err("embedding"), Err("store")} \cup
    IF Truthy(types) /\ ~HasLen(types) THEN {Err("type")}
    ELSE IF FirstExecuteParams(types) # Placeholders(types) THEN {Err("sql")}
    ELSE IF execute_params(types) # Placeholders(types) THEN {Err("sql")}
    ELSE IF lim < 0 \/ sk < 0 THEN {Err("sql")}
    ELSE {Ok(LimitOffset(rows, lim, sk)) :
             rows \in NearestRows(query, SEMANTIC_ONLY_BOUND, types)}

\* a bool is a number to Python's "1 - thr"
IsNumber(v) == v.k \in {"num", "bool"}

Tenths(v) == IF v.k = "bool" THEN 10 * v.n ELSE v.n

semantic_search_items(query, sk, lim, thr, types) ==
    {Err("embedding"), Err("store")} \cup
    IF ~IsNumber(thr) THEN {Err("type")}
    ELSE IF Truthy(types) /\ ~HasLen(types) THEN {Err("type")}
    ELSE IF lim < 0 \/ sk < 0 THEN {Err("sql")}
    ELSE {Ok(LimitOffset(rows, lim, sk)) :
             rows \in NearestRows(query, 10 - Tenths(thr), types)}

Succeeded(outcomes) == {r \in outcomes : r.ok}

Failed(outcomes) == {r \in outcomes : ~r.ok}

\* the try block of search_items: the lists and the page they fuse to
HybridRuns(query, sk, lim, types) ==
    {[text |-> t.items, sem |-> s.items,
      page |-> FusedPage(t.items, s.items, sk, lim)] :
        t \in Succeeded(text_search_only(query, 0, lim * 2, types)),
        s \in Succeeded(semantic_search_only(query, 0, lim * 2, types))}

\* what makes the try block raise: a failure of the lexical query, or,
\* once that has answered, of the semantic one (a failure of its store
\* read is told from one of the lexical read)
HybridFailures(query, lim, types) ==
    LET t1 == text_search_only(query, 0, lim * 2, types)
        s1 == semantic_search_only(query, 0, lim * 2, types)
    IN  {r.cause : r \in Failed(t1)} \cup
        (IF Succeeded(t1) # {}
         THEN {IF r.cause = "store" THEN "semantic_store" ELSE r.cause : r \in Failed(s1)}
         ELSE {})

\* the result of the except clause of search_items, marked with what made
\* the try block raise: a collaborator (the store, the embedding service)
\* or the code's own call
DegradedBy(r, c) ==
    IF r.ok
    THEN [r EXCEPT !.cause = IF c \in {"store", "semantic_store", "embedding"}
                             THEN c ELSE "code"]
    ELSE r

\* variant: the except clause returns the lexical candidates unpaged
search_items_candidates(query, sk, lim, sem, types) ==
    IF ~sem THEN text_search_only(query, sk, lim, types)
    ELSE {Ok(run.page) : run \in HybridRuns(query, sk, lim, types)} \cup
         {DegradedBy(r, c) : r \in text_search_only(query, 0, lim * 2, types),
                             c \in HybridFailures(query, lim, types)}

search_items(query, sk, lim, sem, types) ==
    IF ~sem THEN text_search_only(query, sk, lim, types)
    ELSE {Ok(run.page) : run \in HybridRuns(query, sk, lim, types)} \cup
         {DegradedBy(r, c) : r \in text_search_only(query, sk, lim, types),
                             c \in HybridFailures(query, lim, types)}

\* ------------------------------------------------ fusion on its own
\* values of the variables a specification does not use
NoDict == [searchMode |-> PyMissing, contentTypes |-> PyMissing,
           contentType |-> PyMissing, enhancedTerms |-> PyMissing,
           threshold |-> PyMissing]

NoEvaluation == [satisfied |-> PyMissing, result_quality |-> PyMissing,
                 main_issues |-> PyMissing]

NoResult == [ok |-> FALSE, items |-> << >>, cause |-> "unset"]

NoCalls == [analyze |-> 0, evaluate |-> 0, refine |-> 0, execute |-> 0, fallback |-> 0,
            plan |-> "none", raised |-> FALSE, returned |-> "none", embed |-> 0,
            reads |-> 0, nn |-> 0, cause |-> "none"]

EmptyStore == [id \in 1..NumItems |->
                 [type |-> << >>, title |-> NullStr, raw_content |-> NullStr,
                  tags |-> << >>, created_at |-> 1, vec |-> "none"]]

RankedLists == DistinctSeqs(1..FuseItems, FuseMaxLen)

InitFusion ==
    /\ text_results \in RankedLists
    /\ semantic_results \in RankedLists
    /\ scores = EmptyDict
    /\ sorted_ids = << >>
    /\ pc = "fuse"
    /\ store = EmptyStore
    /\ endpoint = "fusion"
    /\ q = Q_MAIN /\ skip = 0 /\ limit = FuseMaxLen
    /\ user_content_type = PyNone
    /\ semantic = TRUE /\ content_types = PyList(<< >>) /\ threshold = PyNum(3)
    /\ initial_analysis = NoDict /\ refinement = NoDict
    /\ first_evaluation = NoEvaluation /\ second_evaluation = NoEvaluation
    /\ first_results = NoResult /\ second_results = NoResult
    /\ response = NoResult
    /\ calls = NoCalls

\* step 3 of search_items on two candidate lists
Fuse ==
    /\ pc = "fuse"
    /\ scores' = RRFScores(text_results, semantic_results)
    /\ sorted_ids' = FusedOrder(text_results, semantic_results)
    /\ pc' = "fused"
    /\ UNCHANGED <<store, endpoint, q, skip, limit, user_content_type,
                   semantic, content_types, threshold,
                   initial_analysis, first_results, first_evaluation,
                   refinement, second_results, second_evaluation,
                   response, calls, text_results, semantic_results>>

NextFusion == Fuse

SpecFusion == InitFusion /\ [][NextFusion]_vars

\* ------------------------------------------------- properties of fusion
\* denominator of the contribution of list to id, 0 when id is not in it
Denominator(list, id) ==
    IF id \in Range(list) THEN 60 + (IndexOf(list, id) - 1) + 1 ELSE 0

\* n/d = 1/a + 1/b, a term with denominator 0 being absent
IsReciprocalSum(f, a, b) ==
    CASE a = 0 /\ b = 0 -> f.n = 0
      [] a = 0          -> f.n * b = f.d
      [] b = 0          -> f.n * a = f.d
      [] OTHER          -> f.n * a * b = f.d * (a + b)

Fused == pc = "fused"

FusedIds == Range(text_results) \cup Range(semantic_results)

\* C8: after fusion the scored items are exactly the items of the two
\* lists, and each item's score is the sum over the lists containing it of
\* 1/(60 + position + 1), positions counted from 0; an item first in both
\* lists scores 2/61, twice the 1/61 of an item first in only one list.
C8_ScoreIsReciprocalRankSum ==
    Fused =>
        /\ Range(scores.keys) = FusedIds
        /\ DOMAIN scores.val = FusedIds
        /\ \A id \in FusedIds :
              IsReciprocalSum(scores.val[id], Denominator(text_results, id),
                              Denominator(semantic_results, id))
        /\ \A id \in FusedIds :
              /\ (Denominator(text_results, id) = 61 /\ Denominator(semantic_results, id) = 61)
                    => scores.val[id].n * 61 = 2 * scores.val[id].d
              /\ (Denominator(text_results, id) + Denominator(semantic_results, id) = 61)
                    => scores.val[id].n * 61 = scores.val[id].d

\* an item in both lists at different positions next to an item in one list
C8_Witness ==
    /\ Fused
    /\ \E a, b \in FusedIds :
          /\ Denominator(text_results, a) > 0
          /\ Denominator(semantic_results, a) > Denominator(text_results, a)
          /\ Denominator(text_results, b) = 0
          /\ Denominator(semantic_results, b) = 61

ExampleLists == text_results = <<1, 2, 3>> /\ semantic_results = <<3, 1, 4>>

ExampleFused == Fused /\ ExampleLists

\* C9 as stated: for L1=[A,B,C], L2=[C,A,D] (A..D = 1..4) the scores are
\* A=1/61+1/62, C=1/63+1/61, B=1/63, D=1/64 and the order is A, C, B, D.
C9_AsStated ==
    ExampleFused =>
        /\ IsReciprocalSum(scores.val[1], 61, 62)
        /\ IsReciprocalSum(scores.val[3], 63, 61)
        /\ IsReciprocalSum(scores.val[2], 63, 0)
        /\ IsReciprocalSum(scores.val[4], 64, 0)
        /\ sorted_ids = <<1, 3, 2, 4>>

\* C9 amended: for L1=[A,B,C], L2=[C,A,D] the scores are A=1/61+1/62,
\* C=1/63+1/61, B=1/62 (position 1 of L1) and D=1/63 (position 2 of L2),
\* and the order is A, C, B, D.
C9_ExampleScores ==
    ExampleFused =>
        /\ IsReciprocalSum(scores.val[1], 61, 62)
        /\ IsReciprocalSum(scores.val[3], 63, 61)
        /\ IsReciprocalSum(scores.val[2], 62, 0)
        /\ IsReciprocalSum(scores.val[4], 63, 0)
        /\ sorted_ids = <<1, 3, 2, 4>>

C9_Witness == ExampleFused /\ Len(sorted_ids) = 4

ScoreAt(p) == scores.val[sorted_ids[p]]

IsPermutationOfFused ==
    /\ Range(sorted_ids) = FusedIds
    /\ Len(sorted_ids) = Cardinality(FusedIds)

\* best (lowest) position of id in any list
BestPosition(id) ==
    LET a == Denominator(text_results, id)
        b == Denominator(semantic_results, id)
    IN  IF a = 0 THEN b ELSE IF b = 0 THEN a ELSE IF a < b THEN a ELSE b

\* C10 as stated: the fused order is score descending, ties ordered by the
\* best position in any list and then by item id.
C10_AsStated ==
    Fused =>
        /\ IsPermutationOfFused
        /\ \A i, j \in DOMAIN sorted_ids : i < j =>
              \/ FracLess(ScoreAt(j), ScoreAt(i))
              \/ /\ FracEq(ScoreAt(i), ScoreAt(j))
                 /\ \/ BestPosition(sorted_ids[i]) < BestPosition(sorted_ids[j])
                    \/ /\ BestPosition(sorted_ids[i]) = BestPosition(sorted_ids[j])
                       /\ sorted_ids[i] < sorted_ids[j]

\* place of id in the order the lists are processed: the text list first,
\* then the items only the semantic list has
ProcessingRank(id) ==
    IF id \in Range(text_results) THEN IndexOf(text_results, id)
    ELSE Len(text_results) + IndexOf(semantic_results, id)

\* C10 amended: the fused order is score descending, and items with equal
\* scores stay in processing order (text-list items in text order, then
\* the items only the semantic list has), whatever their ids.
C10_TiesKeepProcessingOrder ==
    Fused =>
        /\ IsPermutationOfFused
        /\ \A i, j \in DOMAIN sorted_ids : i < j =>
              \/ FracLess(ScoreAt(j), ScoreAt(i))
              \/ /\ FracEq(ScoreAt(i), ScoreAt(j))
                 /\ ProcessingRank(sorted_ids[i]) < ProcessingRank(sorted_ids[j])

\* two tied items of which the one with the larger id comes first
C10_Witness ==
    /\ Fused
    /\ \E i, j \in DOMAIN sorted_ids :
          /\ i < j
          /\ FracEq(ScoreAt(i), ScoreAt(j))
          /\ sorted_ids[i] > sorted_ids[j]

\* ------------------------------------------------------ oracle adapters
S_hybrid == <<"h","y","b","r","i","d">>

S_semantic == <<"s","e","m","a","n","t","i","c">>

S_text == <<"t","e","x","t">>

S_any == <<"a","n","y">>

S_image == <<"i","m","a","g","e">>

S_url == <<"u","r","l">>

S_poor == <<"p","o","o","r">>

S_good == <<"g","o","o","d">>

S_evaluation_error == <<"e","v","a","l","u","a","t","i","o","n","_","e","r","r","o","r">>

\* what model.generate_content and json.loads give: the call raises (or
\* times out), the text is not JSON, the JSON is not an object, or an
\* object whose fields hold any JSON value.  json.loads is given the whole
\* of response.text: a JSON object inside code fences or other text is
\* text that is not JSON
IsObject(resp) == resp.kind = "dict"

\* variant: the failure default is the semantic plan of the refinement
analyze_search_query_semantic(query, resp) ==
    IF IsObject(resp)
    THEN [searchMode |-> Get(resp.searchMode, PyStr(S_hybrid)),
          contentTypes |-> Get(resp.contentTypes, PyList(<<S_any>>)),
          enhancedTerms |-> Get(resp.enhancedTerms, PyList(<<query>>)),
          contentType |-> PyMissing, threshold |-> PyMissing]
    ELSE [searchMode |-> PyStr(S_semantic),
          contentTypes |-> PyList(<<S_any>>),
          enhancedTerms |-> PyList(<<query>>),
          contentType |-> PyMissing, threshold |-> PyMissing]

\* the dict analyze_search_query returns; it has no key 'contentType'
analyze_search_query(query, resp) ==
    IF IsObject(resp)
    THEN [searchMode |-> Get(resp.searchMode, PyStr(S_hybrid)),
          contentTypes |-> Get(resp.contentTypes, PyList(<<S_any>>)),
          enhancedTerms |-> Get(resp.enhancedTerms, PyList(<<query>>)),
          contentType |-> PyMissing, threshold |-> PyMissing]
    ELSE [searchMode |-> PyStr(S_hybrid),
          contentTypes |-> PyList(<<S_any>>),
          enhancedTerms |-> PyList(<<query>>),
          contentType |-> PyMissing, threshold |-> PyMissing]

evaluate_search_results(resp) ==
    IF IsObject(resp)
    THEN [satisfied |-> Get(resp.satisfied, PyBool(FALSE)),
          result_quality |-> Get(resp.result_quality, PyStr(S_poor)),
          main_issues |-> Get(resp.main_issues, PyList(<< >>))]
    ELSE [satisfied |-> PyBool(FALSE),
          result_quality |-> PyStr(S_poor),
          main_issues |-> PyList(<<S_evaluation_error>>)]

\* the dict refine_search_strategy returns; it has no key 'contentTypes'
refine_search_strategy(query, resp) ==
    IF IsObject(resp)
    THEN [searchMode |-> Get(resp.searchMode, PyStr(S_hybrid)),
          contentType |-> Get(resp.contentType, PyStr(S_any)),
          enhancedTerms |-> Get(resp.enhancedTerms, PyList(<<query>>)),
          threshold |-> Get(resp.threshold, PyNum(2)),
          contentTypes |-> PyMissing]
    ELSE [searchMode |-> PyStr(S_semantic),
          contentType |-> PyStr(S_any),
          enhancedTerms |-> PyList(<<query>>),
          threshold |-> PyNum(1),
          contentTypes |-> PyMissing]

\* ------------------------------------------------------- oracle outputs
Q_OTHER == <<"c","a","t">>

S_fuzzy == <<"f","u","z","z","y">>

OracleFailures ==
    {[kind |-> kd, searchMode |-> PyMissing, contentTypes |-> PyMissing,
      contentType |-> PyMissing, enhancedTerms |-> PyMissing,
      threshold |-> PyMissing, satisfied |-> PyMissing,
      result_quality |-> PyMissing, main_issues |-> PyMissing] :
        kd \in {"raise", "malformed", "nondict"}}

Object(fields) ==
    [kind |-> "dict", searchMode |-> fields.searchMode,
     contentTypes |-> fields.contentTypes, contentType |-> fields.contentType,
     enhancedTerms |-> fields.enhancedTerms, threshold |-> fields.threshold,
     satisfied |-> fields.satisfied, result_quality |-> fields.result_quality,
     main_issues |-> fields.main_issues]

NoFields == [searchMode |-> PyMissing, contentTypes |-> PyMissing,
             contentType |-> PyMissing, enhancedTerms |-> PyMissing,
             threshold |-> PyMissing, satisfied |-> PyMissing,
             result_quality |-> PyMissing, main_issues |-> PyMissing]

\* a response text that holds the JSON object between code fences
Fenced(fields) == [Object(fields) EXCEPT !.kind = "fenced"]

\* the plans tried: nothing set, a fenced text plan, each mode, a mode outside the three with
\* terms that are not a list (null) and with a known and an unknown
\* content type, other terms, no terms
PlanResponses ==
    OracleFailures \cup
    {Object(NoFields),
     Fenced([NoFields EXCEPT !.searchMode = PyStr(S_text),
                             !.enhancedTerms = PyList(<<Q_OTHER>>)]),
     Object([NoFields EXCEPT !.searchMode = PyStr(S_text)]),
     Object([NoFields EXCEPT !.searchMode = PyStr(S_semantic),
                             !.enhancedTerms = PyList(<<Q_OTHER>>)]),
     Object([NoFields EXCEPT !.searchMode = PyStr(S_fuzzy),
                             !.enhancedTerms = PyNone]),
     Object([NoFields EXCEPT !.searchMode = PyStr(S_fuzzy),
                             !.contentTypes = PyList(<<S_url, S_fuzzy>>),
                             !.enhancedTerms = PyList(<<Q_OTHER>>)]),
     Object([NoFields EXCEPT !.enhancedTerms = PyList(<< >>)])}

\* the evaluations tried: a fenced satisfied true, satisfied true, false, and a non-empty string
JudgeResponses ==
    OracleFailures \cup
    {Fenced([NoFields EXCEPT !.satisfied = PyBool(TRUE),
                             !.result_quality = PyStr(S_good),
                             !.main_issues = PyList(<< >>)]),
     Object([NoFields EXCEPT !.satisfied = PyBool(TRUE),
                             !.result_quality = PyStr(S_good),
                             !.main_issues = PyList(<< >>)]),
     Object([NoFields EXCEPT !.satisfied = PyBool(FALSE),
                             !.main_issues = PyList(<<Q_OTHER>>)]),
     Object([NoFields EXCEPT !.satisfied = PyStr(<<"n","o">>)])}

\* the refinements tried: nothing set, a fenced text plan, text on other terms with a
\* non-numeric threshold, semantic with a numeric and a non-numeric
\* threshold, content type null and 'url'
RefineResponses ==
    OracleFailures \cup
    {Object(NoFields),
     Fenced([NoFields EXCEPT !.searchMode = PyStr(S_text),
                             !.enhancedTerms = PyList(<<Q_OTHER>>)]),
     Object([NoFields EXCEPT !.searchMode = PyStr(S_text),
                             !.enhancedTerms = PyList(<<Q_OTHER>>),
                             !.threshold = PyStr(<<"l","o","w">>)]),
     Object([NoFields EXCEPT !.searchMode = PyStr(S_semantic),
                             !.threshold = PyNum(5)]),
     Object([NoFields EXCEPT !.searchMode = PyStr(S_semantic),
                             !.threshold = PyStr(<<"l","o","w">>)]),
     Object([NoFields EXCEPT !.contentType = PyNone]),
     Object([NoFields EXCEPT !.contentType = PyStr(S_url),
                             !.enhancedTerms = PyList(<<Q_OTHER>>)])}

\* ---------------------------------------------------------- smart search
\* The handler's locals are state from their assignment to their last
\* read: first_results until the decision of step 4, initial_analysis and
\* first_evaluation until the prompt of step 5, refinement until step 6,
\* second_results until the decision of step 8.  Past its last read a
\* local cannot influence the handler, and the model forgets it (it
\* takes its initial value again), so that requests that differ only in
\* locals nobody reads any more are one state.
\* ' '.join(v) raises TypeError unless v is a list of strings or a string
CanJoin(v) == v.k \in {"str", "list"}

JoinTerms(v) == JoinWith(<<" ">>, Elements(v))

\* variant: the content type of the plan comes first
ChosenContentType_oracle(plan) ==
    IF Truthy(plan.contentType) /\ plan.contentType # PyStr(S_any)
    THEN plan.contentType
    ELSE IF Truthy(user_content_type) THEN user_content_type ELSE PyStr(S_any)

\* user_content_type if user_content_type and user_content_type != 'any'
\* else plan.get('contentType', 'any')
ChosenContentType(plan) ==
    IF Truthy(user_content_type) /\ user_content_type # PyStr(S_any)
    THEN user_content_type
    ELSE Get(plan.contentType, PyStr(S_any))

\* variant: a mode outside the three runs the text search
ExecutePlan_strict(plan, thr) ==
    LET terms == Get(plan.enhancedTerms, PyList(<<q>>))
        mode == Get(plan.searchMode, PyStr(S_hybrid))
        ctype == ChosenContentType(plan)
    IN  IF ~CanJoin(terms) THEN {Err("type")}
        ELSE IF mode = PyStr(S_semantic)
             THEN semantic_search_items(JoinTerms(terms), skip, limit, thr, ctype)
        ELSE IF mode = PyStr(S_hybrid)
             THEN search_items(JoinTerms(terms), skip, limit, TRUE, ctype)
        ELSE search_items(JoinTerms(terms), skip, limit, FALSE, ctype)

\* variant: the threshold is converted before the dispatch on the mode
ExecutePlan_thresholded(plan, thr) ==
    LET terms == Get(plan.enhancedTerms, PyList(<<q>>))
        mode == Get(plan.searchMode, PyStr(S_hybrid))
        ctype == ChosenContentType(plan)
    IN  IF ~CanJoin(terms) \/ ~IsNumber(thr) THEN {Err("type")}
        ELSE IF mode = PyStr(S_semantic)
             THEN semantic_search_items(JoinTerms(terms), skip, limit, thr, ctype)
        ELSE IF mode = PyStr(S_text)
             THEN search_items(JoinTerms(terms), skip, limit, FALSE, ctype)
        ELSE search_items(JoinTerms(terms), skip, limit, TRUE, ctype)

\* steps 2 and 6: the search a plan dispatches to, thr being the
\* threshold of the semantic branch
ExecutePlan(plan, thr) ==
    LET terms == Get(plan.enhancedTerms, PyList(<<q>>))
        mode == Get(plan.searchMode, PyStr(S_hybrid))
        ctype == ChosenContentType(plan)
    IN  IF ~CanJoin(terms) THEN {Err("type")}
        ELSE IF mode = PyStr(S_semantic)
             THEN semantic_search_items(JoinTerms(terms), skip, limit, thr, ctype)
        ELSE IF mode = PyStr(S_text)
             THEN search_items(JoinTerms(terms), skip, limit, FALSE, ctype)
        ELSE search_items(JoinTerms(terms), skip, limit, TRUE, ctype)

\* the list a search returned, as the handler holds it
Returned(r) == Ok(r.items)

\* the fallback of lines 578 and 586
FallbackSearch == search_items(q, skip, limit, TRUE, user_content_type)

\* --------------------------------------------------------- the requests
MaxLimit == 2       \* largest limit a caller asks for
MaxSkip == 1        \* largest skip a caller asks for

requestVars == <<store, endpoint, q, skip, limit, user_content_type,
                 semantic, content_types, threshold>>

fusionVars == <<text_results, semantic_results, scores, sorted_ids>>

\* the type column is free text (create_item stores what it is given):
\* next to 'image' and 'url' there are items of the one-letter type 'a'
S_a == <<"a">>

ItemProfiles ==
    {[type |-> S_image, title |-> <<"F","o","x">>, raw_content |-> NullStr,
      tags |-> << >>, created_at |-> 2, vec |-> "near"],
     [type |-> S_a, title |-> NullStr, raw_content |-> <<"a"," ","f","o","x">>,
      tags |-> << >>, created_at |-> 1, vec |-> "none"],
     [type |-> S_a, title |-> Q_OTHER, raw_content |-> NullStr,
      tags |-> << >>, created_at |-> 1, vec |-> "mid"],
     [type |-> S_url, title |-> Q_OTHER, raw_content |-> NullStr,
      tags |-> <<Q_OTHER>>, created_at |-> 2, vec |-> "far"]}

\* ids carry no meaning beyond naming the rows (every order of tied rows
\* is produced), so one store per multiset of profiles is enough: the
\* profiles appear in one fixed order along the ids
ProfileOrder == CHOOSE f \in [ItemProfiles -> 1..Cardinality(ItemProfiles)] :
                    \A a, b \in ItemProfiles : a # b => f[a] # f[b]

Stores == {st \in [1..NumItems -> ItemProfiles] :
              \A i, j \in 1..NumItems : i < j => ProfileOrder[st[i]] <= ProfileOrder[st[j]]}

Init ==
    /\ store \in Stores
    /\ q = Q_MAIN
    /\ skip \in -1..MaxSkip
    /\ limit \in -1..MaxLimit
    /\ endpoint \in {"smart", "search", "semantic"}
    /\ pc = endpoint
    /\ IF endpoint = "smart"
       THEN user_content_type \in {PyNone, PyStr(S_any), PyStr(S_image)}
       ELSE user_content_type = PyNone
    /\ IF endpoint = "search" THEN semantic \in BOOLEAN ELSE semantic = TRUE
    /\ IF endpoint = "smart"
       THEN content_types = PyList(<< >>)
       ELSE content_types \in {PyList(<< >>), PyList(<<S_image>>)}
    /\ IF endpoint = "semantic" THEN threshold \in {PyNum(3), PyNum(1)}
       ELSE threshold = PyNum(3)
    /\ initial_analysis = NoDict /\ refinement = NoDict
    /\ first_evaluation = NoEvaluation /\ second_evaluation = NoEvaluation
    /\ first_results = NoResult /\ second_results = NoResult
    /\ response = NoResult
    /\ calls = NoCalls
    /\ text_results = << >> /\ semantic_results = << >>
    /\ scores = EmptyDict /\ sorted_ids = << >>

\* the generate_text_embedding calls search_items has made when it ends
\* with r: none without the semantic flag; one when the fused page is
\* returned; when the try block raised, none if the text search raised
\* (it runs first) and one if the semantic search did
EmbeddingCalls(r, sem) ==
    IF ~sem THEN {0}
    ELSE IF r.ok /\ r.cause = "none" THEN {1}
    ELSE {0, 1}

\* variant: GET /api/search runs the hybrid search whatever the flag
SearchItems_hybrid ==
    /\ pc = "search"
    /\ \E r \in search_items(q, skip, limit, TRUE, content_types) :
          /\ response' = r
          /\ \E n \in EmbeddingCalls(r, TRUE) : calls' = [calls EXCEPT !.embed = n]
    /\ pc' = "done"
    /\ UNCHANGED <<requestVars, fusionVars, initial_analysis, first_results,
                   first_evaluation, refinement, second_results,
                   second_evaluation>>

\* GET /api/search; calls.embed counts its generate_text_embedding calls
SearchItems ==
    /\ pc = "search"
    /\ \E r \in search_items(q, skip, limit, semantic, content_types) :
          /\ response' = r
          /\ \E n \in EmbeddingCalls(r, semantic) : calls' = [calls EXCEPT !.embed = n]
    /\ pc' = "done"
    /\ UNCHANGED <<requestVars, fusionVars, initial_analysis, first_results,
                   first_evaluation, refinement, second_results,
                   second_evaluation>>

\* GET /api/semantic-search
SemanticSearchItems ==
    /\ pc = "semantic"
    /\ \E r \in semantic_search_items(q, skip, limit, threshold, content_types) :
          response' = r
    /\ pc' = "done"
    /\ UNCHANGED <<requestVars, fusionVars, initial_analysis, first_results,
                   first_evaluation, refinement, second_results,
                   second_evaluation, calls>>

\* variant: a plan oracle call that fails raises into the except clause
Plan1_failfast ==
    /\ pc = "smart"
    /\ \/ /\ pc' = "except"
          /\ calls' = [calls EXCEPT !.plan = "unavailable", !.raised = TRUE]
          /\ UNCHANGED initial_analysis
       \/ \E resp \in PlanResponses :
             IF IsObject(resp)
             THEN /\ initial_analysis' = analyze_search_query(q, resp)
                  /\ calls' = [calls EXCEPT !.analyze = @ + 1, !.plan = "answered"]
                  /\ pc' = "execute1"
             ELSE /\ calls' = [calls EXCEPT !.analyze = @ + 1, !.plan = "failed",
                                            !.raised = TRUE]
                  /\ pc' = "except"
                  /\ UNCHANGED initial_analysis
    /\ UNCHANGED <<requestVars, fusionVars, first_results, first_evaluation,
                   refinement, second_results, second_evaluation, response>>

\* step 1: get_gemini_service raises, or analyze_search_query is called
Plan1 ==
    /\ pc = "smart"
    /\ \/ /\ pc' = "except"
          /\ calls' = [calls EXCEPT !.plan = "unavailable", !.raised = TRUE]
          /\ UNCHANGED initial_analysis
       \/ \E resp \in PlanResponses :
             /\ initial_analysis' = analyze_search_query(q, resp)
             /\ calls' = [calls EXCEPT !.analyze = @ + 1,
                             !.plan = IF IsObject(resp) THEN "answered" ELSE "failed"]
             /\ pc' = "execute1"
    /\ UNCHANGED <<requestVars, fusionVars, first_results, first_evaluation,
                   refinement, second_results, second_evaluation, response>>

\* the similarity threshold of attempt 1 in tenths (0.2)
ATTEMPT1_THRESHOLD == 2

\* variant: attempt 1 with the similarity threshold 0.5
Execute1_half ==
    /\ pc = "execute1"
    /\ \E r \in ExecutePlan(initial_analysis, PyNum(5)) :
          IF r.ok
          THEN /\ first_results' = Returned(r)
               /\ pc' = "judge1"
               /\ calls' = [calls EXCEPT !.execute = @ + 1]
          ELSE /\ pc' = "except"
               /\ calls' = [calls EXCEPT !.execute = @ + 1, !.raised = TRUE]
               /\ UNCHANGED first_results
    /\ UNCHANGED <<requestVars, fusionVars, initial_analysis, first_evaluation,
                   refinement, second_results, second_evaluation, response>>

\* step 2: first search attempt, threshold 0.2 in the semantic branch
Execute1 ==
    /\ pc = "execute1"
    /\ \E r \in ExecutePlan(initial_analysis, PyNum(ATTEMPT1_THRESHOLD)) :
          IF r.ok
          THEN /\ first_results' = Returned(r)
               /\ pc' = "judge1"
               /\ calls' = [calls EXCEPT !.execute = @ + 1]
          ELSE /\ pc' = "except"
               /\ calls' = [calls EXCEPT !.execute = @ + 1, !.raised = TRUE]
               /\ UNCHANGED first_results
    /\ UNCHANGED <<requestVars, fusionVars, initial_analysis, first_evaluation,
                   refinement, second_results, second_evaluation, response>>

\* variant: the test of step 4 is inverted
Judge1_inverted ==
    /\ pc = "judge1"
    /\ \E resp \in JudgeResponses :
          /\ first_evaluation' = evaluate_search_results(resp)
          /\ IF ~Truthy(first_evaluation'.satisfied)
             THEN /\ response' = first_results
                  /\ pc' = "done"
                  /\ calls' = [calls EXCEPT !.evaluate = @ + 1, !.returned = "first"]
                  /\ UNCHANGED first_results
             ELSE /\ pc' = "refine"
                  /\ calls' = [calls EXCEPT !.evaluate = @ + 1]
                  /\ first_results' = NoResult
                  /\ UNCHANGED response
    /\ UNCHANGED <<requestVars, fusionVars, initial_analysis,
                   refinement, second_results, second_evaluation>>

\* steps 3 and 4: evaluate the first results, return them if satisfied
Judge1 ==
    /\ pc = "judge1"
    /\ \E resp \in JudgeResponses :
          /\ first_evaluation' = evaluate_search_results(resp)
          /\ IF Truthy(first_evaluation'.satisfied)
             THEN /\ response' = first_results
                  /\ pc' = "done"
                  /\ calls' = [calls EXCEPT !.evaluate = @ + 1, !.returned = "first"]
                  /\ UNCHANGED first_results
             ELSE /\ pc' = "refine"
                  /\ calls' = [calls EXCEPT !.evaluate = @ + 1]
                  /\ first_results' = NoResult
                  /\ UNCHANGED response
    /\ UNCHANGED <<requestVars, fusionVars, initial_analysis,
                   refinement, second_results, second_evaluation>>

\* step 5: refine_search_strategy
Refine ==
    /\ pc = "refine"
    /\ \E resp \in RefineResponses :
          refinement' = refine_search_strategy(q, resp)
    /\ calls' = [calls EXCEPT !.refine = @ + 1]
    /\ pc' = "execute2"
    /\ initial_analysis' = NoDict
    /\ first_evaluation' = NoEvaluation
    /\ UNCHANGED <<requestVars, fusionVars, first_results,
                   second_results, second_evaluation, response>>

\* step 6: second search attempt with the refined plan
Execute2 ==
    /\ pc = "execute2"
    /\ \E r \in ExecutePlan(refinement, Get(refinement.threshold, PyNum(2))) :
          IF r.ok
          THEN /\ second_results' = Returned(r)
               /\ pc' = "judge2"
               /\ calls' = [calls EXCEPT !.execute = @ + 1]
          ELSE /\ pc' = "except"
               /\ calls' = [calls EXCEPT !.execute = @ + 1, !.raised = TRUE]
               /\ UNCHANGED second_results
    /\ refinement' = NoDict
    /\ UNCHANGED <<requestVars, fusionVars, initial_analysis, first_results,
                   first_evaluation, second_evaluation, response>>

\* variant: an unsatisfied second evaluation starts another refinement
Judge2_retry ==
    /\ pc = "judge2"
    /\ \E resp \in JudgeResponses :
          /\ second_evaluation' = evaluate_search_results(resp)
          /\ IF Truthy(second_evaluation'.satisfied)
             THEN /\ response' = second_results
                  /\ pc' = "done"
                  /\ calls' = [calls EXCEPT !.evaluate = @ + 1, !.returned = "second"]
                  /\ UNCHANGED second_results
             ELSE /\ pc' = "refine"
                  /\ calls' = [calls EXCEPT !.evaluate = @ + 1]
                  /\ second_results' = NoResult
                  /\ UNCHANGED response
    /\ UNCHANGED <<requestVars, fusionVars, initial_analysis, first_results,
                   first_evaluation, refinement>>

\* steps 7 and 8: evaluate the second results and decide
Judge2 ==
    /\ pc = "judge2"
    /\ \E resp \in JudgeResponses :
          /\ second_evaluation' = evaluate_search_results(resp)
          /\ IF Truthy(second_evaluation'.satisfied)
             THEN /\ response' = second_results
                  /\ pc' = "done"
                  /\ calls' = [calls EXCEPT !.evaluate = @ + 1, !.returned = "second"]
                  /\ UNCHANGED second_results
             ELSE /\ pc' = "final_fallback"
                  /\ calls' = [calls EXCEPT !.evaluate = @ + 1]
                  /\ second_results' = NoResult
                  /\ UNCHANGED response
    /\ UNCHANGED <<requestVars, fusionVars, initial_analysis, first_results,
                   first_evaluation, refinement>>

\* variant: the else branch of step 8 searches with no content filter
FinalFallback_unfiltered ==
    /\ pc = "final_fallback"
    /\ \E r \in search_items(q, skip, limit, TRUE, PyNone) :
          IF r.ok
          THEN /\ response' = r
               /\ pc' = "done"
               /\ calls' = [calls EXCEPT !.fallback = @ + 1, !.returned = "final_fallback"]
          ELSE /\ pc' = "except"
               /\ calls' = [calls EXCEPT !.fallback = @ + 1, !.raised = TRUE]
               /\ UNCHANGED response
    /\ UNCHANGED <<requestVars, fusionVars, initial_analysis, first_results,
                   first_evaluation, refinement, second_results, second_evaluation>>

\* the else branch of step 8: hybrid search on the original query
FinalFallback ==
    /\ pc = "final_fallback"
    /\ \E r \in FallbackSearch :
          IF r.ok
          THEN /\ response' = r
               /\ pc' = "done"
               /\ calls' = [calls EXCEPT !.fallback = @ + 1, !.returned = "final_fallback"]
          ELSE /\ pc' = "except"
               /\ calls' = [calls EXCEPT !.fallback = @ + 1, !.raised = TRUE]
               /\ UNCHANGED response
    /\ UNCHANGED <<requestVars, fusionVars, initial_analysis, first_results,
                   first_evaluation, refinement, second_results, second_evaluation>>

\* variant: the except clause runs the semantic retriever alone
ExceptFallback_semantic ==
    /\ pc = "except"
    /\ \E r \in semantic_search_items(q, skip, limit, PyNum(3), user_content_type) :
          response' = r
    /\ pc' = "done"
    /\ calls' = [calls EXCEPT !.fallback = @ + 1, !.returned = "except_fallback"]
    /\ UNCHANGED <<requestVars, fusionVars, initial_analysis, first_results,
                   first_evaluation, refinement, second_results, second_evaluation>>

\* variant: the except clause searches the text only
ExceptFallback_lexical ==
    /\ pc = "except"
    /\ \E r \in search_items(q, skip, limit, FALSE, user_content_type) : response' = r
    /\ pc' = "done"
    /\ calls' = [calls EXCEPT !.fallback = @ + 1, !.returned = "except_fallback"]
    /\ UNCHANGED <<requestVars, fusionVars, initial_analysis, first_results,
                   first_evaluation, refinement, second_results, second_evaluation>>

\* the except clause: hybrid search on the original query, whose own
\* exception ends the request
ExceptFallback ==
    /\ pc = "except"
    /\ \E r \in FallbackSearch : response' = r
    /\ pc' = "done"
    /\ calls' = [calls EXCEPT !.fallback = @ + 1, !.returned = "except_fallback"]
    /\ UNCHANGED <<requestVars, fusionVars, initial_analysis, first_results,
                   first_evaluation, refinement, second_results, second_evaluation>>

Next ==
    \/ SearchItems
    \/ SemanticSearchItems
    \/ Plan1
    \/ Execute1
    \/ Judge1
    \/ Refine
    \/ Execute2
    \/ Judge2
    \/ FinalFallback
    \/ ExceptFallback

Spec == Init /\ [][Next]_vars

\* -------------------------------------------- properties of smart search
OracleCalls == calls.analyze + calls.evaluate + calls.refine

\* some outcome has the same success and the same list of items
SameList(res, outcomes) ==
    \E r \in outcomes : r.ok = res.ok /\ r.items = res.items

\* C1: a request makes at most 1 analyze call, at most 1 refine call and
\* at most 2 evaluate calls, at most 4 oracle calls in all, and runs at
\* most two execute/judge cycles, whatever the oracles answer.
C1_OracleCallBound ==
    /\ calls.analyze <= 1
    /\ calls.refine <= 1
    /\ calls.evaluate <= 2
    /\ OracleCalls <= 4
    /\ calls.execute <= 2

C1_Witness == pc = "done" /\ OracleCalls = 4 /\ calls.execute = 2

\* C2: the step that takes the first evaluation returns the first results
\* when it is satisfied=true, with no refine call and this one evaluate
\* call made, and the request takes no step after it; when it is
\* satisfied=false the step returns nothing and the request goes on to
\* refine, then to the second execute, then (unless that execute raised)
\* to the second evaluation.
C2_FirstEvaluationDecides ==
    [][/\ pc = "judge1" =>
             /\ first_evaluation'.satisfied = PyBool(TRUE) =>
                    /\ pc' = "done"
                    /\ response' = first_results
                    /\ calls'.returned = "first"
                    /\ calls'.refine = 0
                    /\ calls'.evaluate = 1
             /\ first_evaluation'.satisfied = PyBool(FALSE) =>
                    /\ pc' = "refine"
                    /\ response' = NoResult
                    /\ calls'.returned = "none"
       /\ pc = "refine" => pc' = "execute2" /\ calls'.refine = 1
       /\ pc = "execute2" =>
             /\ calls'.execute = 2
             /\ IF calls'.raised THEN pc' = "except" ELSE pc' = "judge2"
       /\ pc = "judge2" => calls'.evaluate = 2
       /\ calls.returned # "first"]_vars

\* satisfied first results that are not empty
C2_Witness ==
    /\ pc = "done"
    /\ calls.returned = "first"
    /\ first_evaluation.satisfied = PyBool(TRUE)
    /\ response.items # << >>

AfterSecondEvaluation == second_evaluation # NoEvaluation

NoOracleCallAfterSecondEvaluation ==
    AfterSecondEvaluation =>
        calls.analyze = 1 /\ calls.refine = 1 /\ calls.evaluate = 2

C4_FailureEndsInFallback ==
    [][/\ (calls'.raised /\ ~calls.raised) => pc' = "except"
       /\ calls.raised => /\ calls'.analyze = calls.analyze
                          /\ calls'.evaluate = calls.evaluate
                          /\ calls'.refine = calls.refine
       /\ pc = "except" =>
             /\ pc' = "done"
             /\ calls'.returned = "except_fallback"
             /\ response' \in search_items(q, skip, limit, TRUE, user_content_type)]_vars

\* the second execute raised and the fallback found something
C4_Witness ==
    /\ pc = "done"
    /\ calls.raised
    /\ calls.returned = "except_fallback"
    /\ calls.refine = 1
    /\ response.ok /\ response.items # << >>

PlanOracleFailed == calls.plan \in {"failed", "unavailable"}

\* C5 as stated: when the plan oracle raises, whatever the other oracles
\* do, the request returns what a hybrid search on the original query with
\* the same pagination returns (under the caller's content type, or under
\* the content type attempt 1 uses).
C5_AsStated ==
    (PlanOracleFailed /\ pc = "done") =>
        SameList(response,
                 search_items(q, skip, limit, TRUE, user_content_type)
                    \cup search_items(q, skip, limit, TRUE, ChosenContentType(NoDict)))

\* C5 amended: when the plan oracle raises, the request returns the outcome
\* of a hybrid search on the original query with the same pagination and
\* the caller's user_content_type, unless an evaluation is satisfied: a
\* satisfied first evaluation returns the first results (a hybrid search
\* on the original query under the content type of attempt 1), a satisfied
\* second one the second results.
C5_PlanFailureResult ==
    (PlanOracleFailed /\ pc = "done") =>
        CASE calls.returned = "first" ->
                /\ Truthy(first_evaluation.satisfied)
                /\ response = first_results
                /\ SameList(first_results,
                            search_items(q, skip, limit, TRUE, ChosenContentType(NoDict)))
          [] calls.returned = "second" ->
                /\ Truthy(second_evaluation.satisfied)
                /\ response = second_results
          [] OTHER ->
                response \in search_items(q, skip, limit, TRUE, user_content_type)

\* the plan call failed, no evaluation was satisfied, the fallback answered
C5_Witness ==
    /\ pc = "done"
    /\ calls.plan = "failed"
    /\ calls.returned = "final_fallback"
    /\ response.items # << >>

\* C6: when the plan oracle call fails and the caller named no content
\* type, the first attempt is a hybrid search on the original query with
\* an unrestricted content-type filter.
C6_AsStated ==
    (calls.plan = "failed" /\ user_content_type = PyNone /\ first_results # NoResult) =>
        SameList(first_results, search_items(q, skip, limit, TRUE, PyNone))

\* C7: a response of any endpoint (text-only, hybrid and semantic search,
\* smart search on every return path) has at most limit items.
C7_ResultWithinLimit == response.ok => Len(response.items) <= limit

\* a page cut to the limit although more items match
C7_Witness ==
    /\ pc = "done"
    /\ response.ok
    /\ Len(response.items) = limit
    /\ Cardinality({id \in ItemIds : LexicalMatch(id, q)}) > limit

\* ------------------------------------------- lexical search on its own
\* GET /api/search?semantic=false over a store of five items whose texts
\* are given and whose creation times vary
S_note == <<"n","o","t","e">>

Q_DOG == <<"d","o","g">>

Q_DOG_PHOTOS == <<"d","o","g"," ","p","h","o","t","o","s">>

\* queries with a LIKE metacharacter
Q_D_G == <<"d","_","g">>

Q_PERCENT == <<"%">>

LexicalQueries == {Q_MAIN, Q_DOG, Q_DOG_PHOTOS, Q_D_G, Q_PERCENT}

\* A (image, title "Dog running"), B (url, body "cats only"),
\* C (image, tags dog and pet), an item titled "Quick Fox", an item
\* tagged "FOX"
LexicalItems ==
    <<[type |-> S_image, title |-> <<"D","o","g"," ","r","u","n","n","i","n","g">>,
       raw_content |-> NullStr, tags |-> << >>, created_at |-> 1, vec |-> "none"],
      [type |-> S_url, title |-> NullStr,
       raw_content |-> <<"c","a","t","s"," ","o","n","l","y">>,
       tags |-> << >>, created_at |-> 1, vec |-> "none"],
      [type |-> S_image, title |-> NullStr, raw_content |-> NullStr,
       tags |-> <<Q_DOG, <<"p","e","t">> >>, created_at |-> 1, vec |-> "none"],
      [type |-> S_note, title |-> <<"Q","u","i","c","k"," ","F","o","x">>,
       raw_content |-> NullStr, tags |-> << >>, created_at |-> 1, vec |-> "none"],
      [type |-> S_url, title |-> NullStr, raw_content |-> NullStr,
       tags |-> << <<"F","O","X">> >>, created_at |-> 1, vec |-> "none"]>>

LexicalStores ==
    {[id \in DOMAIN LexicalItems |-> [LexicalItems[id] EXCEPT !.created_at = stamp[id]]] :
        stamp \in [DOMAIN LexicalItems -> {1, 2}]}

InitLexical ==
    /\ store \in LexicalStores
    /\ q \in LexicalQueries
    /\ skip \in 0..MaxSkip
    /\ limit \in 0..MaxLimit
    /\ endpoint = "search"
    /\ pc = endpoint
    /\ user_content_type = PyNone
    /\ semantic = FALSE
    /\ content_types \in {PyList(<< >>), PyList(<<S_image>>), PyList(<<S_url, S_note>>)}
    /\ threshold = PyNum(3)
    /\ initial_analysis = NoDict /\ refinement = NoDict
    /\ first_evaluation = NoEvaluation /\ second_evaluation = NoEvaluation
    /\ first_results = NoResult /\ second_results = NoResult
    /\ response = NoResult
    /\ calls = NoCalls
    /\ text_results = << >> /\ semantic_results = << >>
    /\ scores = EmptyDict /\ sorted_ids = << >>

NextLexical == SearchItems

SpecLexical == InitLexical /\ [][NextLexical]_vars

\* ------------------------------------------ properties of lexical search
\* the text holds the query as a substring, letter case ignored
Contains(text, query) ==
    /\ text # NullStr
    /\ \E i \in 0..(Len(text) - Len(query)) :
          SubSeq(Lower(text), i + 1, i + Len(query)) = Lower(query)

\* the items the title, body or a tag of which holds the query, of a type
\* of the filter when there is one
ContainingItems(query, types) ==
    {id \in ItemIds :
        /\ \/ Contains(store[id].title, query)
           \/ Contains(store[id].raw_content, query)
           \/ \E t \in DOMAIN store[id].tags : Contains(store[id].tags[t], query)
        /\ types.l # << >> => store[id].type \in Range(types.l)}

\* the list is the page skip, limit of the set S, newest first
IsPageNewestFirst(items, S) ==
    \E rows \in OrdersBy(S, [id \in S |-> NewerFirst(id)]) :
        items = LimitOffset(rows, limit, skip)

LexicalAnswered == pc = "done" /\ ~semantic /\ response.ok

\* C11: a lexical search that answers returns (the requested page of)
\* exactly the items whose title, body or a tag contains the query string,
\* letter case ignored, and whose type is in the filter when there is one,
\* newest first; it answers with the empty list when nothing matches.
C11_AsStated ==
    LexicalAnswered => IsPageNewestFirst(response.items, ContainingItems(q, content_types))

HasMetacharacter(query) == \E i \in DOMAIN query : query[i] \in {"%", "_"}

\* C11 for queries without '%' and '_': the page of exactly the containing
\* items, newest first, and the empty list (an answer, not a failure) when
\* nothing matches.
C11_LiteralQueries ==
    (LexicalAnswered /\ ~HasMetacharacter(q)) =>
        /\ IsPageNewestFirst(response.items, ContainingItems(q, content_types))
        /\ ContainingItems(q, content_types) = {} => response = Ok(<< >>)

\* "Quick Fox" and the tag "FOX" are found by "fox", in either order when
\* their creation times tie, and nothing else is
C11_Witness ==
    /\ LexicalAnswered
    /\ q = Q_MAIN /\ skip = 0 /\ limit = 2
    /\ content_types = PyList(<< >>)
    /\ response.items = <<5, 4>>
    /\ store[4].created_at = store[5].created_at

\* the ids of A and C in the store of the lexical specification
DogItems == {id \in DOMAIN LexicalItems :
                \/ LexicalItems[id].title = <<"D","o","g"," ","r","u","n","n","i","n","g">>
                \/ \E t \in DOMAIN LexicalItems[id].tags : LexicalItems[id].tags[t] = Q_DOG}

\* C12 as stated: with semantic=false and no filter, "dog photos" over a
\* store holding A, B and C returns (the page of) A and C, newest first.
C12_AsStated ==
    (LexicalAnswered /\ q = Q_DOG_PHOTOS /\ content_types = PyList(<< >>)) =>
        IsPageNewestFirst(response.items, DogItems)

\* C12 amended: the query is matched as one string: "dog photos" finds
\* nothing (A holds "dog" but not "dog photos") and the answer is the
\* empty list; the one-word query "dog" returns (the page of) A and C,
\* newest first, without B.
C12_PhraseMatch ==
    (LexicalAnswered /\ content_types = PyList(<< >>)) =>
        /\ q = Q_DOG_PHOTOS => response = Ok(<< >>)
        /\ q = Q_DOG => IsPageNewestFirst(response.items, DogItems)

\* "dog photos" answered with nothing although two items could be returned
C12_Witness ==
    /\ LexicalAnswered
    /\ q = Q_DOG_PHOTOS
    /\ content_types = PyList(<< >>)
    /\ skip = 0 /\ limit = 2
    /\ response = Ok(<< >>)

\* ------------------------------------------- properties of GET /api/search
\* C13 as stated: semantic=true takes the plan/judge/refine path (the plan
\* oracle is called); semantic=false runs the lexical retriever only, with
\* no oracle call and no embedding call.
C13_AsStated ==
    (endpoint = "search" /\ pc = "done") =>
        IF semantic THEN calls.analyze >= 1
        ELSE OracleCalls = 0 /\ calls.embed = 0

\* C13 amended: the search operation never calls an oracle, whatever the
\* flag (the oracles belong to smart search, which has no such flag);
\* semantic=true runs the hybrid search (lexical and semantic retriever,
\* fused; one embedding call when the fused page is returned) and
\* semantic=false the lexical retriever only, with no embedding call.
C13_SemanticFlagSelectsHybrid ==
    /\ endpoint # "smart" => OracleCalls = 0
    /\ (endpoint = "search" /\ pc = "done") =>
          IF semantic
          THEN /\ response \in search_items(q, skip, limit, TRUE, content_types)
               /\ (response.ok /\ response.cause = "none") => calls.embed = 1
          ELSE /\ response \in text_search_only(q, skip, limit, content_types)
               /\ calls.embed = 0

\* a fused page that holds an item, returned with no oracle call
C13_Witness ==
    /\ endpoint = "search" /\ pc = "done"
    /\ semantic
    /\ response.ok /\ response.cause = "none" /\ response.items # << >>
    /\ calls.embed = 1
    /\ OracleCalls = 0

\* --------------------------------------- properties of semantic retrieval
HasVector(id) == store[id].vec # "none"

AllHaveVectors(r) == \A i \in DOMAIN r.items : HasVector(r.items[i])

\* the outcomes of the semantic retriever for the request: inside the
\* hybrid search, and as the semantic search endpoint
SemanticOutcomes ==
    semantic_search_only(q, 0, limit * 2, content_types)
        \cup semantic_search_items(q, skip, limit, threshold, content_types)

\* what can make a retrieval raise: the store or the embedding
\* collaborator being down, an argument of the wrong type, a statement
\* the database rejects; none of them is a row
FailureCauses == {"store", "embedding", "type", "sql"}

\* C14: no outcome of the semantic retriever holds an item without a
\* stored vector, and neither does the answer of the semantic search
\* endpoint; whatever rows the store holds, a semantic or hybrid search
\* with valid pagination can answer, and one that fails fails for a cause
\* that is not a row.
C14_NoVectorNoResultNoFailure ==
    /\ (endpoint = "semantic" /\ pc = "done") => AllHaveVectors(response)
    /\ pc \in {"search", "semantic"} =>
          /\ \A r \in SemanticOutcomes : AllHaveVectors(r)
          /\ (skip >= 0 /\ limit >= 0) =>
                /\ Succeeded(semantic_search_items(q, skip, limit, threshold, PyList(<< >>))) # {}
                /\ Succeeded(semantic_search_only(q, skip, limit, PyList(<< >>))) # {}
                /\ Succeeded(search_items(q, skip, limit, TRUE, content_types)) # {}
          /\ \A r \in Failed(SemanticOutcomes
                             \cup search_items(q, skip, limit, TRUE, content_types)) :
                r.cause \in FailureCauses

\* the semantic search answers with an item although the store also holds
\* an item without a vector
C14_Witness ==
    /\ endpoint = "semantic" /\ pc = "done"
    /\ response.ok /\ response.items # << >>
    /\ \E id \in ItemIds : ~HasVector(id)

\* every item of the list has a vector nearer than bound (tenths) to the
\* query's vector, and the list runs from the nearest to the farthest
IsNearestFirstBelow(items, query, bound) ==
    /\ \A i \in DOMAIN items :
          HasVector(items[i]) /\ Distance(items[i], query) < bound
    /\ \A i, j \in DOMAIN items :
          i < j => Distance(items[i], query) <= Distance(items[j], query)

\* the effective query of attempt 1
Attempt1Terms == JoinTerms(Get(initial_analysis.enhancedTerms, PyList(<<q>>)))

Attempt1WasSemantic ==
    /\ pc = "judge1"
    /\ initial_analysis.searchMode = PyStr(S_semantic)

HybridSemanticListsBelowHalf ==
    pc = "search" =>
        \A run \in HybridRuns(q, skip, limit, content_types) :
            IsNearestFirstBelow(run.sem, q, SEMANTIC_ONLY_BOUND)

\* C15 as stated: the semantic list of a hybrid search, and the results of
\* attempt 1 under a semantic plan, hold only items at a distance below
\* 0.5, nearest first.
C15_AsStated ==
    /\ HybridSemanticListsBelowHalf
    /\ Attempt1WasSemantic =>
          IsNearestFirstBelow(first_results.items, Attempt1Terms, SEMANTIC_ONLY_BOUND)

\* C15 amended: the semantic list of a hybrid search holds only items at a
\* distance below 0.5, nearest first; the results of attempt 1 under a
\* semantic plan hold only items at a distance below 1 - 0.2 = 0.8,
\* nearest first, and a first page that is not full holds every item of an
\* admitted type below 0.8.
C15_DistanceBounds ==
    /\ HybridSemanticListsBelowHalf
    /\ Attempt1WasSemantic =>
          /\ IsNearestFirstBelow(first_results.items, Attempt1Terms, 10 - ATTEMPT1_THRESHOLD)
          /\ (skip = 0 /\ Len(first_results.items) < limit) =>
                \A id \in ItemIds :
                    (/\ HasVector(id)
                     /\ Distance(id, Attempt1Terms) < 10 - ATTEMPT1_THRESHOLD
                     /\ TypeMatch(id, ChosenContentType(initial_analysis)))
                        => id \in Range(first_results.items)

\* attempt 1 under a semantic plan returned an item at a distance of 0.5
\* or more
C15_Witness ==
    /\ Attempt1WasSemantic
    /\ \E i \in DOMAIN first_results.items :
          Distance(first_results.items[i], Attempt1Terms) >= SEMANTIC_ONLY_BOUND

\* ------------------------------------------ properties of the adapters
DefaultEvaluation ==
    [satisfied |-> PyBool(FALSE), result_quality |-> PyStr(S_poor),
     main_issues |-> PyList(<<S_evaluation_error>>)]

\* the output is an object that has the three fields with their types
IsWellFormedEvaluation(resp) ==
    /\ IsObject(resp)
    /\ resp.satisfied.k = "bool"
    /\ resp.result_quality.k = "str"
    /\ resp.main_issues.k = "list"

AboutToJudge == pc \in {"judge1", "judge2"}

\* C16 as stated: whenever the judge's call raises or its output is not a
\* well-formed evaluation (unparseable, not an object, a field missing or
\* of the wrong type), the handler receives satisfied=false, poor,
\* ["evaluation_error"].
C16_AsStated ==
    AboutToJudge =>
        \A resp \in JudgeResponses :
            ~IsWellFormedEvaluation(resp) => evaluate_search_results(resp) = DefaultEvaluation

\* C16 for a call that raises, an unparseable output and an output that is
\* not an object: the handler receives satisfied=false, poor,
\* ["evaluation_error"], and goes on to refine.
C16_FailureDefaults ==
    /\ AboutToJudge =>
          \A resp \in JudgeResponses :
              ~IsObject(resp) => evaluate_search_results(resp) = DefaultEvaluation
    /\ first_evaluation.main_issues = PyList(<<S_evaluation_error>>) =>
          first_evaluation = DefaultEvaluation /\ pc = "refine"

\* the first evaluation failed and the request is about to refine
C16_Witness ==
    /\ pc = "refine"
    /\ first_evaluation = DefaultEvaluation
    /\ calls.evaluate = 1

\* the plan refine_search_strategy returns when its call fails
FallbackRefinement == refine_search_strategy(q, CHOOSE resp \in OracleFailures : resp.kind = "raise")

AboutToExecuteFallbackPlan == pc = "execute2" /\ refinement = FallbackRefinement

\* what attempt 2 can end with
Attempt2Outcomes == ExecutePlan(refinement, Get(refinement.threshold, PyNum(2)))

\* the two sets hold the same lists with the same success
SameOutcomes(A, B) ==
    /\ \A r \in A : SameList(r, B)
    /\ \A r \in B : SameList(r, A)

\* C17 as stated: after a failed refine call (and no content type from the
\* caller) attempt 2 is the semantic search on the original query with no
\* content-type filter and the distance bound 0.9.
C17_AsStated ==
    (AboutToExecuteFallbackPlan /\ ~Truthy(user_content_type)) =>
        SameOutcomes(Attempt2Outcomes,
                     semantic_search_items(q, skip, limit, PyNum(1), PyList(<< >>)))

\* C17 as the code has it: after a failed refine call attempt 2 is the
\* semantic search on the original query with the distance bound 0.9,
\* given as content types the caller's content type or else the string
\* 'any'.
C17_FallbackPlanExecuted ==
    AboutToExecuteFallbackPlan =>
        /\ \A resp \in OracleFailures : refine_search_strategy(q, resp) = refinement
        /\ Attempt2Outcomes =
              semantic_search_items(q, skip, limit, PyNum(1),
                                    IF Truthy(user_content_type) /\ user_content_type # PyStr(S_any)
                                    THEN user_content_type ELSE PyStr(S_any))

\* the fallback plan is about to run over a store that holds an image
\* near the query
C17_Witness ==
    /\ AboutToExecuteFallbackPlan
    /\ user_content_type = PyNone
    /\ skip = 0 /\ limit > 0
    /\ \E id \in ItemIds : store[id].type = S_image /\ HasVector(id)

\* ------------------------------------------- properties of the dispatch
\* the outcomes of the retrieval a plan of that mode is to run on the
\* plan's terms: the lexical retriever alone, the semantic retriever
\* alone, or the hybrid search (both retrievers, then fusion)
DispatchedOutcomes(plan, thr) ==
    LET terms == JoinTerms(Get(plan.enhancedTerms, PyList(<<q>>)))
        ctype == ChosenContentType(plan)
    IN  CASE plan.searchMode = PyStr(S_text) ->
                text_search_only(terms, skip, limit, ctype)
          [] plan.searchMode = PyStr(S_semantic) ->
                semantic_search_items(terms, skip, limit, thr, ctype)
          [] OTHER ->
                {Ok(run.page) : run \in HybridRuns(terms, skip, limit, ctype)} \cup
                {DegradedBy(r, c) : r \in text_search_only(terms, skip, limit, ctype),
                                    c \in HybridFailures(terms, limit, ctype)}

HasTerms(plan) == CanJoin(Get(plan.enhancedTerms, PyList(<<q>>)))

\* C18: Execute runs the lexical retriever alone for the mode 'text', the
\* semantic retriever alone for 'semantic' and the hybrid search for
\* 'hybrid', for a missing mode and for every other mode value, in
\* attempt 1 and in attempt 2; the first results are an outcome of that
\* retrieval.
C18_DispatchByMode ==
    /\ (pc = "execute1" /\ HasTerms(initial_analysis)) =>
          ExecutePlan(initial_analysis, PyNum(ATTEMPT1_THRESHOLD))
             = DispatchedOutcomes(initial_analysis, PyNum(ATTEMPT1_THRESHOLD))
    /\ (pc = "execute2" /\ HasTerms(refinement)) =>
          Attempt2Outcomes
             = DispatchedOutcomes(refinement, Get(refinement.threshold, PyNum(2)))
    /\ pc = "judge1" =>
          SameList(first_results,
                   DispatchedOutcomes(initial_analysis, PyNum(ATTEMPT1_THRESHOLD)))

\* attempt 1 ran under a mode that is none of the three and found an item
C18_Witness ==
    /\ pc = "judge1"
    /\ initial_analysis.searchMode = PyStr(S_fuzzy)
    /\ first_results.items # << >>

\* --------------------------------- properties of the plan's terms and types
\* attempt 1 has executed the plan
Attempt1Executed == pc = "judge1"

\* the plan in hand when the oracle's object had no terms (the adapter
\* has put [query] in their place) or an empty list of terms
TermsDefaulted == initial_analysis.enhancedTerms = PyList(<<q>>)

TermsEmpty == initial_analysis.enhancedTerms = PyList(<< >>)

\* C19 as stated: with empty or missing terms the effective query of
\* attempt 1 is the original query, and the effective query is never empty.
C19_AsStated ==
    Attempt1Executed =>
        /\ (TermsDefaulted \/ TermsEmpty) => Attempt1Terms = q
        /\ Attempt1Terms # << >>

\* C19, what the code does: missing terms give the original query as the
\* effective query of attempt 1; an empty list of terms gives the empty
\* string, and the results of attempt 1 are those of the dispatched
\* retrieval on the empty string.
C19_MissingTermsDefault ==
    Attempt1Executed =>
        /\ TermsDefaulted => Attempt1Terms = q
        /\ TermsEmpty =>
              /\ Attempt1Terms = << >>
              /\ SameList(first_results,
                          search_items(<< >>, skip, limit, TRUE,
                                       ChosenContentType(initial_analysis)))

\* attempt 1 ran on the empty string and returned an item whose text does
\* not hold the original query
C19_Witness ==
    /\ Attempt1Executed
    /\ TermsEmpty
    /\ \E i \in DOMAIN first_results.items :
          ~LexicalMatch(first_results.items[i], q)

\* the content types the plan oracle is asked to choose from
KnownContentTypes ==
    {S_image, S_url, <<"p","d","f">>, <<"v","i","d","e","o">>, S_note,
     <<"p","r","o","d","u","c","t">>}

\* the known content types among those the plan suggests
SuggestedTypes ==
    Range(Elements(initial_analysis.contentTypes)) \cap KnownContentTypes

\* the caller names no content type of its own
CallerHasNoFilter ==
    ~Truthy(user_content_type) \/ user_content_type = PyStr(S_any)

\* the items the content-type argument of attempt 1 admits
AdmittedInAttempt1(id) == TypeMatch(id, ChosenContentType(initial_analysis))

\* C20 as stated: the filter of attempt 1 admits exactly the items of a
\* known content type the oracle suggested, and every item when no known
\* type is suggested.
C20_AsStated ==
    (Attempt1Executed /\ CallerHasNoFilter) =>
        \A id \in ItemIds :
            AdmittedInAttempt1(id) <=>
                (SuggestedTypes = {} \/ store[id].type \in SuggestedTypes)

\* C20, what the code does: the content types the oracle suggests are never
\* read; with no content type named by the caller the content-type argument
\* of attempt 1 is the string 'any', which admits the items whose type is
\* one of its characters, and every result of attempt 1 is such an item.
C20_SuggestedTypesUnused ==
    (Attempt1Executed /\ CallerHasNoFilter) =>
        /\ ChosenContentType(initial_analysis) = PyStr(S_any)
        /\ \A id \in ItemIds :
              AdmittedInAttempt1(id) <=> store[id].type \in {<<"a">>, <<"n">>, <<"y">>}
        /\ \A i \in DOMAIN first_results.items :
              AdmittedInAttempt1(first_results.items[i])

\* the oracle suggested 'url' and an unknown type, and attempt 1 returned
\* an item that is not of type 'url' while the store holds one that is
C20_Witness ==
    /\ Attempt1Executed /\ CallerHasNoFilter
    /\ SuggestedTypes = {S_url}
    /\ \E i \in DOMAIN first_results.items :
          store[first_results.items[i]].type # S_url
    /\ \E id \in ItemIds : store[id].type = S_url

\* ----------------------------------- properties of the caller's filter
\* C21: when the caller names a content type other than 'any', the
\* content-type argument of attempt 1 and of attempt 2 is the caller's
\* value, the searches run are those the plan dispatches to with it,
\* whatever content type the plan or the refinement holds, and every
\* first result is admitted by it.
C21_CallerFilterUsed ==
    ~CallerHasNoFilter =>
        /\ pc = "execute1" =>
              /\ ChosenContentType(initial_analysis) = user_content_type
              /\ ExecutePlan(initial_analysis, PyNum(ATTEMPT1_THRESHOLD))
                   = ExecutePlan([initial_analysis EXCEPT !.contentType = PyStr(S_url)],
                                 PyNum(ATTEMPT1_THRESHOLD))
        /\ pc = "execute2" =>
              /\ ChosenContentType(refinement) = user_content_type
              /\ Attempt2Outcomes
                   = ExecutePlan([refinement EXCEPT !.contentType = PyMissing],
                                 Get(refinement.threshold, PyNum(2)))
        /\ pc = "judge1" =>
              \A i \in DOMAIN first_results.items :
                  TypeMatch(first_results.items[i], user_content_type)

\* the caller names 'image', attempt 1 has run and the refinement in hand
\* for attempt 2 names 'url'
C21_Witness ==
    /\ pc = "execute2"
    /\ calls.execute = 1
    /\ user_content_type = PyStr(S_image)
    /\ refinement.contentType = PyStr(S_url)

\* ------------------------------------------- properties of bad requests
\* C22 as stated: a request with a negative skip or a limit that is not
\* positive ends as a failure, and no oracle, no search and no embedding
\* call is made for it.
C22_AsStated ==
    (pc = "done" /\ (skip < 0 \/ limit <= 0)) =>
        /\ ~response.ok
        /\ calls.analyze + calls.evaluate + calls.refine = 0
        /\ calls.execute + calls.fallback + calls.embed = 0

\* C22, what the code does: no handler checks its parameters.  Smart
\* search with any skip and limit runs a search (an attempt or a
\* fallback) before it ends; a limit of 0 that ends well ends with the
\* empty list; a negative limit ends as a failure of the last search run.
C22_NoValidation ==
    pc = "done" =>
        /\ endpoint = "smart" => calls.execute + calls.fallback >= 1
        /\ (limit = 0 /\ response.ok) => response.items = << >>
        /\ limit < 0 => ~response.ok

\* smart search with limit 0 called the plan oracle, ran attempt 1 and
\* returned the empty list as a success
C22_Witness ==
    /\ pc = "done" /\ endpoint = "smart"
    /\ limit = 0 /\ skip >= 0
    /\ calls.analyze = 1 /\ calls.execute >= 1
    /\ response.ok

\* ------------------------------------------ properties of store failures
\* C23 as stated: a request in which a store call failed ends as a failed
\* search.
C23_AsStated ==
    (pc = "done" /\ response.cause \in {"store", "semantic_store"}) => ~response.ok

\* C23, what the code does: a request ends as a failure exactly when the
\* last search it ran raised; a hybrid search whose try block raised
\* because of the store ends well with the list of the lexical query it
\* runs next, and ends as a failure only when that query fails too.
C23_LastSearchDecides ==
    pc = "done" =>
        /\ (response.ok /\ response.cause \in {"store", "semantic_store"}) =>
              SameList(response, text_search_only(q, skip, limit,
                          IF endpoint = "smart" THEN user_content_type ELSE content_types))
        /\ ~response.ok => response.cause \in {"store", "embedding", "type", "sql"}
        /\ (endpoint = "smart" /\ ~response.ok) => calls.returned = "except_fallback"

\* GET /api/search returned items although a store call of its hybrid
\* search had failed
C23_Witness ==
    /\ pc = "done" /\ endpoint = "search"
    /\ response.ok /\ response.cause = "semantic_store"
    /\ response.items # << >>

\* C24 as stated: a lexical read that failed is not issued again: no
\* request ends with a list obtained after the lexical read of its last
\* search had failed.
C24_AsStated ==
    pc = "done" => ~(response.ok /\ response.cause = "store")

\* C24, what the code does: when the lexical read of a hybrid search
\* fails, the except clause issues the lexical query again, with the
\* caller's skip and limit, and its list is the result; a text-only
\* search and the semantic endpoint read once.
C24_LexicalReadReissued ==
    pc = "done" =>
        /\ (response.ok /\ response.cause = "store") =>
              /\ endpoint \in {"smart", "search"}
              /\ endpoint = "search" => semantic
              /\ SameList(response, text_search_only(q, skip, limit,
                          IF endpoint = "smart" THEN user_content_type ELSE content_types))
        /\ (endpoint = "semantic" \/ (endpoint = "search" /\ ~semantic)) =>
              (response.ok => response.cause = "none")

\* a hybrid GET /api/search whose lexical read failed returned the items
\* of the second lexical read
C24_Witness ==
    /\ pc = "done" /\ endpoint = "search" /\ semantic
    /\ response.ok /\ response.cause = "store"
    /\ response.items # << >>

\* ----------------------------------------- properties of oracle failures
\* C25 as stated: once the plan oracle call of a request has failed, no
\* other oracle call is made and the request returns the result of the
\* fallback search.
C25_AsStated ==
    calls.plan = "failed" =>
        /\ calls.evaluate = 0 /\ calls.refine = 0
        /\ pc = "done" => calls.returned \in {"except_fallback", "final_fallback"}

\* C25 amended: a failed oracle call is not repeated (one plan call, one
\* refine call, one evaluation per attempt) and does not start the
\* fallback: a failed plan call leaves the default plan and attempt 1
\* runs, a failed evaluation counts as unsatisfied and the next step
\* (refine after attempt 1, the final fallback after attempt 2) follows,
\* a failed refine call leaves the fallback refinement and attempt 2
\* runs.  Only the oracle service being unavailable leads straight to the
\* fallback search, with no oracle call made.
C25_FailureAbsorbed ==
    [][/\ calls'.analyze <= 1 /\ calls'.refine <= 1
       /\ calls'.evaluate <= calls'.execute
       /\ (pc = "smart" /\ calls'.plan = "failed") =>
             /\ pc' = "execute1" /\ ~calls'.raised
             /\ initial_analysis' = analyze_search_query(q, CHOOSE r \in OracleFailures : TRUE)
       /\ (pc = "smart" /\ calls'.plan = "unavailable") =>
             pc' = "except" /\ OracleCalls' = 0
       /\ (pc = "judge1" /\ first_evaluation' = DefaultEvaluation) =>
             pc' = "refine" /\ ~calls'.raised
       /\ (pc = "refine" /\ refinement' = FallbackRefinement) =>
             pc' = "execute2" /\ ~calls'.raised
       /\ (pc = "judge2" /\ second_evaluation' = DefaultEvaluation) =>
             pc' = "final_fallback" /\ ~calls'.raised]_vars

\* the plan oracle call failed, the evaluate oracle was called all the
\* same and the first results were returned
C25_Witness ==
    /\ pc = "done"
    /\ calls.plan = "failed"
    /\ calls.evaluate = 1
    /\ calls.returned = "first"

\* C26: whatever the oracles do (service unavailable, call raising, text
\* that is not JSON, JSON that is not an object, fields missing or of the
\* wrong type), a smart-search request ends with a result list unless
\* the lexical query of its last search fails, at the store or because
\* of a negative skip or limit; a request whose oracle service is
\* unavailable returns the fallback search's list with no oracle call.
C26_OracleFailuresAbsorbed ==
    (pc = "done" /\ endpoint = "smart") =>
        /\ ~response.ok =>
              /\ response \in Failed(text_search_only(q, skip, limit, user_content_type))
              /\ response.cause = "store" \/ skip < 0 \/ limit < 0
        /\ calls.plan = "unavailable" =>
              /\ OracleCalls = 0
              /\ SameList(response, FallbackSearch)

\* without the oracle service a request returned an item
C26_Witness ==
    /\ pc = "done" /\ endpoint = "smart"
    /\ calls.plan = "unavailable"
    /\ response.ok /\ response.items # << >>

\* ------------------------------------------ an oracle that never answers
\* model.generate_content is awaited through asyncio.to_thread with no
\* timeout: when the service never responds the await never completes
\* and the handler stays where it is
AwaitOracle ==
    /\ pc \in {"smart", "judge1", "refine", "judge2"}
    /\ pc' = "awaiting"
    /\ calls' = CASE pc = "smart"  -> [calls EXCEPT !.analyze = @ + 1]
                  [] pc = "refine" -> [calls EXCEPT !.refine = @ + 1]
                  [] OTHER         -> [calls EXCEPT !.evaluate = @ + 1]
    /\ UNCHANGED <<requestVars, fusionVars, initial_analysis, first_results,
                   first_evaluation, refinement, second_results,
                   second_evaluation, response>>

\* the steps of smart search, and an oracle call that stays silent
NextAwait ==
    \/ Plan1
    \/ Execute1
    \/ Judge1
    \/ Refine
    \/ Execute2
    \/ Judge2
    \/ FinalFallback
    \/ ExceptFallback
    \/ AwaitOracle

\* smart-search requests for the first page of one item, no content type
InitAwait ==
    /\ Init
    /\ endpoint = "smart"
    /\ skip = 0 /\ limit = 1
    /\ user_content_type = PyNone

\* the handler moves on: it is neither finished nor awaiting an oracle
Advance ==
    /\ pc \notin {"done", "awaiting"}
    /\ pc' \in {"execute1", "judge1", "refine", "execute2", "judge2",
                "final_fallback", "except", "done", "awaiting"} \ {pc}

\* the event loop runs a handler that can move on: every collaborator
\* call but a silent oracle returns or raises
SpecAwait == InitAwait /\ [][NextAwait]_vars /\ WF_pc(Advance)

\* C27 as stated: every request eventually returns, also when an oracle
\* call never responds.
C27_AsStated == <>(pc = "done")

\* C27, what the code does: a request returns unless it is left awaiting
\* an oracle call that never responds, and then it never returns.
C27_ReturnsUnlessAwaiting ==
    [](pc = "awaiting" => [](pc = "awaiting" /\ ~response.ok))
        /\ <>(pc \in {"done", "awaiting"})

\* the request is awaiting the evaluate oracle after attempt 1
C27_Witness ==
    /\ pc = "awaiting"
    /\ calls.analyze = 1 /\ calls.execute = 1 /\ calls.evaluate = 1

\* ------------------------------- properties of the content-type argument
\* C28 as stated: in attempt 1 a content-type value other than 'any'
\* admits exactly the items of that type, and 'any' admits every item:
\* every first result is admitted, and a first page of a text plan that
\* is not full holds every admitted item that matches.
C28_AsStated ==
    Attempt1Executed =>
        LET v == ChosenContentType(initial_analysis)
            Admits(id) == v = PyStr(S_any) \/ store[id].type = v.s
        IN  /\ \A i \in DOMAIN first_results.items : Admits(first_results.items[i])
            /\ (/\ initial_analysis.searchMode = PyStr(S_text)
                /\ skip = 0 /\ Len(first_results.items) < limit) =>
                  \A id \in ItemIds :
                      (Admits(id) /\ LexicalMatch(id, Attempt1Terms))
                          => id \in Range(first_results.items)

\* C28, what the code does: the retrievers iterate over the string they
\* are handed, so the value admits the items whose type is one of its
\* characters: every first result is such an item, a first page of a
\* text plan that is not full holds every such item that matches, and
\* the fallback searches filter by the characters of the caller's value
\* ('any' included) in the same way.
C28_FilterByCharacters ==
    /\ Attempt1Executed =>
          /\ \A i \in DOMAIN first_results.items :
                AdmittedInAttempt1(first_results.items[i])
          /\ (/\ initial_analysis.searchMode = PyStr(S_text)
              /\ skip = 0 /\ Len(first_results.items) < limit) =>
                \A id \in ItemIds :
                    (AdmittedInAttempt1(id) /\ LexicalMatch(id, Attempt1Terms))
                        => id \in Range(first_results.items)
    /\ (pc = "done" /\ calls.fallback > 0 /\ user_content_type.k = "str") =>
          \A i \in DOMAIN response.items :
              \E c \in DOMAIN user_content_type.s :
                  store[response.items[i]].type = <<user_content_type.s[c]>>

\* under the filter 'any' a text plan returned no item although an item
\* of type 'image' matches the query
C28_Witness ==
    /\ Attempt1Executed
    /\ ChosenContentType(initial_analysis) = PyStr(S_any)
    /\ initial_analysis.searchMode = PyStr(S_text)
    /\ skip = 0 /\ limit > 0
    /\ first_results.items = << >>
    /\ \E id \in ItemIds : store[id].type = S_image /\ LexicalMatch(id, Attempt1Terms)

\* ----------------------------------------- hybrid search page by page
\* GET /api/search with semantic=true and no filter, at the skips of the
\* first pages, over stores of more items than a page of candidates
NumPagingItems == 3     \* items in a store
MaxPage == 3            \* the pages asked for are 0..MaxPage

InitPaging ==
    /\ store \in {st \in [1..NumPagingItems -> ItemProfiles] :
                    \A i, j \in 1..NumPagingItems :
                        i < j => ProfileOrder[st[i]] <= ProfileOrder[st[j]]}
    /\ q = Q_MAIN
    /\ limit \in 1..MaxLimit
    /\ skip \in {k * limit : k \in 0..MaxPage}
    /\ endpoint = "search"
    /\ pc = endpoint
    /\ user_content_type = PyNone
    /\ semantic = TRUE
    /\ content_types = PyList(<< >>)
    /\ threshold = PyNum(3)
    /\ initial_analysis = NoDict /\ refinement = NoDict
    /\ first_evaluation = NoEvaluation /\ second_evaluation = NoEvaluation
    /\ first_results = NoResult /\ second_results = NoResult
    /\ response = NoResult
    /\ calls = NoCalls
    /\ text_results = << >> /\ semantic_results = << >>
    /\ scores = EmptyDict /\ sorted_ids = << >>

SpecPaging == InitPaging /\ [][SearchItems]_vars

\* ------------------------------------------ properties of hybrid paging
\* the hybrid search has answered, none of its retrievals failing
HybridPaged == pc = "done" /\ response.ok /\ response.cause = "none"

\* some page skip = 0, limit, 2*limit, ... of the hybrid search, none of
\* its retrievals failing, holds the item
OnSomePage(id) ==
    \E k \in 0..(2 * Cardinality(ItemIds)) :
        \E run \in HybridRuns(q, k * limit, limit, content_types) :
            id \in Range(run.page)

\* C29 as stated: every item the lexical or the semantic retriever matches
\* is on some page of the hybrid search.
C29_AsStated ==
    HybridPaged =>
        \A id \in ItemIds :
            (\/ LexicalMatch(id, q)
             \/ HasVector(id) /\ Distance(id, q) < SEMANTIC_ONLY_BOUND)
                => OnSomePage(id)

\* C29, what the code does: the pages are cut from the fusion of the first
\* 2*limit rows of each retriever, so an item is on some page exactly when
\* it is among those candidates, and a page at skip 4*limit or beyond is
\* empty; a matching item with 2*limit newer matching items before it in
\* every retriever's order is on no page.
C29_CandidateWindow ==
    HybridPaged =>
        /\ \A id \in ItemIds :
              OnSomePage(id) <=>
                  \E run \in HybridRuns(q, 0, limit, content_types) :
                      id \in Range(run.text) \cup Range(run.sem)
        /\ skip >= 4 * limit => response.items = << >>
        /\ \A i \in DOMAIN response.items : OnSomePage(response.items[i])

\* the hybrid search with limit 1 returned an item while a matching item
\* is on no page
C29_Witness ==
    /\ HybridPaged /\ limit = 1
    /\ response.items # << >>
    /\ \E id \in ItemIds : LexicalMatch(id, q) /\ ~OnSomePage(id)

\* --------------------------------------- properties of the fallback search
\* C30 as stated: a request runs the fallback search at most once and at
\* most three searches in all.
C30_AsStated ==
    /\ calls.fallback <= 1
    /\ calls.execute + calls.fallback <= 3

\* C30, what the code does: the fallback search of step 8 is inside the
\* try block, so when it raises the except clause runs the same search
\* again: a request runs the fallback search at most twice and at most
\* four searches in all, and it runs it twice only after two attempts and
\* two evaluations.
C30_FallbackAtMostTwice ==
    /\ calls.fallback <= 2
    /\ calls.execute + calls.fallback <= 4
    /\ calls.fallback = 2 =>
          /\ calls.raised /\ calls.returned = "except_fallback"
          /\ calls.execute = 2 /\ calls.evaluate = 2

\* the fallback search ran twice and the second run returned an item
C30_Witness ==
    /\ pc = "done"
    /\ calls.fallback = 2
    /\ response.ok /\ response.items # << >>

\* ------------------------------------ properties of the degraded search
\* C31: when the try block of the hybrid search raised, GET /api/search
\* answers what the lexical retriever answers for the request's own q,
\* skip, limit and content types, and it raises only if that query raises.
C31_DegradesToLexical ==
    (/\ pc = "done" /\ endpoint = "search" /\ semantic
     /\ ~(response.ok /\ response.cause = "none"))
        => \E r \in text_search_only(q, skip, limit, content_types) :
              /\ r.ok = response.ok
              /\ r.items = response.items
              /\ ~r.ok => r.cause = response.cause

\* the embedding call failed and the second page of the lexical matches
\* was returned
C31_Witness ==
    /\ pc = "done" /\ endpoint = "search" /\ semantic
    /\ response.ok /\ response.cause = "embedding"
    /\ skip = 1 /\ response.items # << >>

\* ------------------------------------- hybrid search statement by statement
\* GET /api/search with semantic=true, one action per await or statement
\* of the try block and the except clause.  calls.reads counts the
\* cur.execute calls of text_search_only, calls.nn those of
\* semantic_search_only, calls.embed the generate_text_embedding calls;
\* calls.cause is what made the try block raise.
InitHybrid ==
    /\ store \in {st \in [1..NumPagingItems -> ItemProfiles] :
                    \A i, j \in 1..NumPagingItems :
                        i < j => ProfileOrder[st[i]] <= ProfileOrder[st[j]]}
    /\ q = Q_MAIN
    /\ limit \in 1..MaxLimit
    /\ skip \in 0..MaxSkip
    /\ endpoint = "search"
    /\ pc = "text_start"
    /\ user_content_type = PyNone
    /\ semantic = TRUE
    /\ content_types \in {PyList(<< >>), PyList(<<S_image>>)}
    /\ threshold = PyNum(3)
    /\ initial_analysis = NoDict /\ refinement = NoDict
    /\ first_evaluation = NoEvaluation /\ second_evaluation = NoEvaluation
    /\ first_results = NoResult /\ second_results = NoResult
    /\ response = NoResult
    /\ calls = NoCalls
    /\ text_results = << >> /\ semantic_results = << >>
    /\ scores = EmptyDict /\ sorted_ids = << >>

\* line 294: text_search_only(q, 0, limit * 2, content_types) is called
HybridTextStart ==
    /\ pc = "text_start"
    /\ pc' = "text_run"
    /\ UNCHANGED <<requestVars, fusionVars, initial_analysis, first_results,
                   first_evaluation, refinement, second_results,
                   second_evaluation, response, calls>>

\* line 294: the lexical candidates are returned, or the call raises
\* (with no connection no statement is executed)
HybridText ==
    /\ pc = "text_run"
    /\ \E r \in text_search_only(q, 0, limit * 2, content_types) :
          IF r.ok
          THEN /\ text_results' = r.items
               /\ calls' = [calls EXCEPT !.reads = @ + 1]
               /\ pc' = "embed"
          ELSE /\ \E n \in {0, 1} :
                     calls' = [calls EXCEPT !.reads = @ + n, !.cause = r.cause]
               /\ pc' = "except"
               /\ UNCHANGED text_results
    /\ UNCHANGED <<requestVars, semantic_results, scores, sorted_ids,
                   initial_analysis, first_results, first_evaluation,
                   refinement, second_results, second_evaluation, response>>

\* variant: a failed embedding call counts as no semantic match
HybridEmbed_empty ==
    /\ pc = "embed"
    /\ \/ /\ calls' = [calls EXCEPT !.embed = @ + 1]
          /\ pc' = "execute1"
       \/ /\ calls' = [calls EXCEPT !.embed = @ + 1, !.cause = "embedding"]
          /\ pc' = "fuse"
    /\ UNCHANGED <<requestVars, fusionVars, initial_analysis, first_results,
                   first_evaluation, refinement, second_results,
                   second_evaluation, response>>

\* lines 297, 368-369: semantic_search_only starts with the embedding call,
\* whose exception leaves the function
HybridEmbed ==
    /\ pc = "embed"
    /\ \/ /\ calls' = [calls EXCEPT !.embed = @ + 1]
          /\ pc' = "execute1"
       \/ /\ calls' = [calls EXCEPT !.embed = @ + 1, !.cause = "embedding"]
          /\ pc' = "except"
    /\ UNCHANGED <<requestVars, fusionVars, initial_analysis, first_results,
                   first_evaluation, refinement, second_results,
                   second_evaluation, response>>

\* lines 371-391: the first cur.execute, whose rows are not fetched
HybridExecute1 ==
    /\ pc = "execute1"
    /\ \/ /\ calls' = [calls EXCEPT !.cause = "semantic_store"]
          /\ pc' = "except"
       \/ /\ FirstExecuteParams(content_types) = Placeholders(content_types)
          /\ \/ /\ calls' = [calls EXCEPT !.nn = @ + 1]
                /\ pc' = "execute2"
             \/ /\ calls' = [calls EXCEPT !.nn = @ + 1, !.cause = "semantic_store"]
                /\ pc' = "except"
       \/ /\ FirstExecuteParams(content_types) # Placeholders(content_types)
          /\ calls' = [calls EXCEPT !.nn = @ + 1, !.cause = "sql"]
          /\ pc' = "except"
    /\ UNCHANGED <<requestVars, fusionVars, initial_analysis, first_results,
                   first_evaluation, refinement, second_results,
                   second_evaluation, response>>

\* variant: the semantic candidates are read at the caller's skip
HybridExecute2_skipped ==
    /\ pc = "execute2"
    /\ \/ /\ execute_params(content_types) = Placeholders(content_types)
          /\ \E rows \in NearestRows(q, SEMANTIC_ONLY_BOUND, content_types) :
                semantic_results' = LimitOffset(rows, limit * 2, skip)
          /\ calls' = [calls EXCEPT !.nn = @ + 1]
          /\ pc' = "fuse"
       \/ /\ calls' = [calls EXCEPT !.nn = @ + 1, !.cause = "semantic_store"]
          /\ pc' = "except"
          /\ UNCHANGED semantic_results
    /\ UNCHANGED <<requestVars, text_results, scores, sorted_ids,
                   initial_analysis, first_results, first_evaluation,
                   refinement, second_results, second_evaluation, response>>

\* lines 403-419: the second cur.execute and fetchall, LIMIT limit * 2
\* OFFSET 0
HybridExecute2 ==
    /\ pc = "execute2"
    /\ \/ /\ execute_params(content_types) = Placeholders(content_types)
          /\ \E rows \in NearestRows(q, SEMANTIC_ONLY_BOUND, content_types) :
                semantic_results' = LimitOffset(rows, limit * 2, 0)
          /\ calls' = [calls EXCEPT !.nn = @ + 1]
          /\ pc' = "fuse"
       \/ /\ calls' = [calls EXCEPT !.nn = @ + 1, !.cause = "semantic_store"]
          /\ pc' = "except"
          /\ UNCHANGED semantic_results
    /\ UNCHANGED <<requestVars, text_results, scores, sorted_ids,
                   initial_analysis, first_results, first_evaluation,
                   refinement, second_results, second_evaluation, response>>

\* lines 299-327: fusion, then the page sorted_ids[skip : skip + limit]
HybridFuse ==
    /\ pc = "fuse"
    /\ scores' = RRFScores(text_results, semantic_results)
    /\ sorted_ids' = SortedByScore(scores'.keys, scores'.val)
    /\ response' = Ok(PySlice(sorted_ids', skip, skip + limit))
    /\ pc' = "done"
    /\ UNCHANGED <<requestVars, text_results, semantic_results, calls,
                   initial_analysis, first_results, first_evaluation,
                   refinement, second_results, second_evaluation>>

\* lines 329-331: the except clause returns the lexical page
HybridExcept ==
    /\ pc = "except"
    /\ \E r \in text_search_only(q, skip, limit, content_types) :
          /\ response' = DegradedBy(r, calls.cause)
          /\ IF r.ok THEN calls' = [calls EXCEPT !.reads = @ + 1]
             ELSE \E n \in {0, 1} : calls' = [calls EXCEPT !.reads = @ + n]
    /\ pc' = "done"
    /\ UNCHANGED <<requestVars, fusionVars, initial_analysis, first_results,
                   first_evaluation, refinement, second_results,
                   second_evaluation>>

NextHybrid ==
    \/ HybridTextStart
    \/ HybridText
    \/ HybridEmbed
    \/ HybridExecute1
    \/ HybridExecute2
    \/ HybridFuse
    \/ HybridExcept

SpecHybrid == InitHybrid /\ [][NextHybrid]_vars

\* ------------------------- properties of the statements of hybrid search
\* C32 as stated: both statements of the semantic retriever bind their
\* parameters in placeholder order whatever the content types, and a
\* content-type filter never makes hybrid search degrade.
C32_AsStated ==
    /\ pc = "execute1" =>
          FirstExecuteParams(content_types) = Placeholders(content_types)
    /\ pc = "execute2" =>
          execute_params(content_types) = Placeholders(content_types)
    /\ pc = "done" /\ response.ok => response.cause # "code"

\* C32, what the code does: the first statement is given the query vector
\* twice before the content types, so it binds in order only when there is
\* no content type; with a filter it fails, the second statement is never
\* reached and hybrid search answers the lexical page.
C32_FilterAlwaysDegrades ==
    /\ FirstExecuteParams(content_types) = Placeholders(content_types)
          <=> ~Truthy(content_types)
    /\ execute_params(content_types) = Placeholders(content_types)
    /\ Truthy(content_types) =>
          /\ pc \notin {"execute2", "fuse"}
          /\ pc = "done" => ~(response.ok /\ response.cause = "none")

\* hybrid search with the filter ['image'] returned the lexical page
\* because the first statement of the semantic retriever failed
C32_Witness ==
    /\ pc = "done" /\ Truthy(content_types)
    /\ response.ok /\ response.cause = "code"
    /\ response.items # << >>
    /\ calls.reads = 2 /\ calls.nn = 1 /\ calls.embed = 1

\* C33 as stated: when both retrievers have returned, each has issued
\* exactly one read query.
C33_AsStated ==
    pc = "fuse" => calls.reads = 1 /\ calls.nn = 1

\* C33, what the code does: the lexical retriever issues one read per
\* invocation, the semantic retriever that returns has issued two
\* nearest-neighbour reads, and one that fails has issued at most two.
C33_SemanticReadsTwice ==
    /\ pc = "fuse" => calls.reads = 1 /\ calls.nn = 2
    /\ calls.nn <= 2 /\ calls.reads <= 2
    /\ pc = "done" /\ response.ok /\ response.cause # "none" =>
          calls.reads \in {1, 2}

\* both retrievers have returned rows to a hybrid search
C33_Witness ==
    /\ pc = "fuse" /\ calls.nn = 2
    /\ text_results # << >> /\ semantic_results # << >>

C37_EmbeddingFailurePropagates ==
    calls.cause = "embedding" =>
        /\ pc \in {"except", "done"}
        /\ calls.nn = 0
        /\ semantic_results = << >> /\ sorted_ids = << >>
        /\ pc = "done" => ~(response.ok /\ response.cause = "none")

\* the embedding call of a hybrid search failed after the lexical
\* candidates had been read
C37_Witness ==
    /\ pc = "except" /\ calls.cause = "embedding"
    /\ calls.embed = 1 /\ calls.reads = 1 /\ text_results # << >>

\* C39 as stated: while the lexical retrieval is running the semantic one
\* has started or can start.
C39_AsStated ==
    pc = "text_run" => calls.embed > 0 \/ ENABLED HybridEmbed

\* C39, what the code does: the semantic retrieval starts only after the
\* lexical one has returned, it does not start when the lexical one
\* raised, and fusion starts after both have returned.
C39_Sequential ==
    /\ pc \in {"text_start", "text_run"} => calls.embed = 0 /\ calls.nn = 0
    /\ calls.embed > 0 => calls.reads >= 1
    /\ calls.cause \in {"store", "type", "sql"} /\ calls.nn = 0 => calls.embed = 0
    /\ pc = "fuse" => calls.reads = 1 /\ calls.embed = 1 /\ calls.nn = 2

\* the lexical retrieval of a hybrid search is running and the semantic
\* one has not started
C39_Witness ==
    pc = "text_run" /\ calls.embed = 0 /\ ~ENABLED HybridEmbed

\* ------------------------------------------ properties of the stage order
\* C34: the stages of a request occur only in the order Plan1, Execute1,
\* Judge1, refine, Execute2, Judge2: each is entered from its predecessor
\* alone, refine only after a first evaluation that is not satisfied,
\* Execute2 only after the refine call, Judge2 only after the second
\* search has returned a list.
C34_StageOrder ==
    [][/\ pc' = "execute1" => pc = "smart" /\ calls'.analyze = 1
       /\ pc' = "judge1" => pc = "execute1" /\ first_results'.ok
       /\ pc' = "refine" =>
             /\ pc = "judge1"
             /\ calls'.evaluate = 1 /\ calls'.refine = 0
             /\ ~Truthy(first_evaluation'.satisfied)
       /\ pc' = "execute2" => pc = "refine" /\ calls'.refine = 1
       /\ pc' = "judge2" =>
             /\ pc = "execute2"
             /\ calls'.execute = 2 /\ calls'.evaluate = 1
             /\ second_results'.ok
       /\ pc' = "final_fallback" => pc = "judge2" /\ calls'.evaluate = 2]_vars

\* the second evaluation is about to be asked for, after one analyze
\* call, one evaluation, one refine call and two searches
C34_Witness ==
    /\ pc = "judge2"
    /\ calls.analyze = 1 /\ calls.evaluate = 1
    /\ calls.refine = 1 /\ calls.execute = 2

\* C35 as stated: the first results are returned without refinement only
\* when the satisfied field of the first evaluation is the boolean true.
C35_AsStated ==
    pc = "done" /\ calls.returned = "first" =>
        first_evaluation.satisfied = PyBool(TRUE)

\* C35, what the code does: the first results are returned when the
\* satisfied field is truthy, whatever its type, and only a falsy one
\* leads to refinement.
C35_TruthyIsSatisfied ==
    /\ pc = "done" /\ calls.returned = "first" =>
          Truthy(first_evaluation.satisfied)
    /\ pc = "refine" => ~Truthy(first_evaluation.satisfied)

\* the oracle answered satisfied: "no" and the first results were returned
\* with no refinement
C35_Witness ==
    /\ pc = "done" /\ calls.returned = "first"
    /\ first_evaluation.satisfied = PyStr(<<"n","o">>)
    /\ calls.refine = 0 /\ calls.execute = 1
    /\ response.ok

\* ------------------------------------- properties of the plan's threshold
\* C38: when the refined plan's mode is not 'semantic', attempt 2 has the
\* same outcomes whatever the plan's threshold is - missing, out of range,
\* not a number - and the threshold makes none of them a failure.
C38_ThresholdUnusedOutsideSemantic ==
    (pc = "execute2" /\ refinement.searchMode # PyStr(S_semantic)) =>
        \A thr \in {PyNum(2), PyNum(20), PyNum(0 - 5), PyNone,
                    PyStr(<<"l","o","w">>)} :
            ExecutePlan(refinement, thr) = Attempt2Outcomes

\* attempt 2 is about to run a text plan whose threshold is the string
\* 'low'
C38_Witness ==
    /\ pc = "execute2"
    /\ refinement.searchMode = PyStr(S_text)
    /\ refinement.threshold = PyStr(<<"l","o","w">>)
    /\ \E r \in Attempt2Outcomes : r.ok

\* --------------------------------------- properties of fenced responses
\* the oracle's answer is a JSON object between code fences
IsFenced(resp) == resp.kind = "fenced"

\* C40 as stated: a JSON object wrapped in code fences is extracted, and
\* its fields form the plan, the evaluation or the refinement as those of
\* the bare object do.
C40_AsStated ==
    /\ pc = "smart" =>
          \A resp \in PlanResponses : IsFenced(resp) =>
              analyze_search_query(q, resp)
                  = analyze_search_query(q, [resp EXCEPT !.kind = "dict"])
    /\ pc \in {"judge1", "judge2"} =>
          \A resp \in JudgeResponses : IsFenced(resp) =>
              evaluate_search_results(resp)
                  = evaluate_search_results([resp EXCEPT !.kind = "dict"])
    /\ pc = "refine" =>
          \A resp \in RefineResponses : IsFenced(resp) =>
              refine_search_strategy(q, resp)
                  = refine_search_strategy(q, [resp EXCEPT !.kind = "dict"])

\* C40, what the code does: a fenced object is text that json.loads
\* rejects, and each adapter answers it with its fixed default.
C40_FencedIsDefault ==
    /\ pc = "smart" =>
          \A resp \in PlanResponses : IsFenced(resp) =>
              /\ analyze_search_query(q, resp).searchMode = PyStr(S_hybrid)
              /\ analyze_search_query(q, resp).enhancedTerms = PyList(<<q>>)
    /\ pc \in {"judge1", "judge2"} =>
          \A resp \in JudgeResponses : IsFenced(resp) =>
              evaluate_search_results(resp) = DefaultEvaluation
    /\ pc = "refine" =>
          \A resp \in RefineResponses : IsFenced(resp) =>
              refine_search_strategy(q, resp) = FallbackRefinement

\* attempt 1 is about to run the default hybrid plan on the caller's
\* query, as it does after a fenced text plan with other terms
C40_Witness ==
    /\ pc = "execute1" /\ calls.plan = "failed"
    /\ \E resp \in PlanResponses :
          /\ IsFenced(resp)
          /\ resp.searchMode = PyStr(S_text)
          /\ initial_analysis = analyze_search_query(q, resp)
    /\ initial_analysis.searchMode = PyStr(S_hybrid)

====
